---- MODULE Spec2Model ----
(***************************************************************************)
(* State-machine model of the note/category data layer of the             *)
(* dnd5e-sheet-notes module: the Category entity, the CategoryManager     *)
(* service, the version-1 migration and the migration runner, acting on   *)
(* one actor's flags (categories, version) and embedded note items.       *)
(***************************************************************************)
EXTENDS Integers, Sequences, FiniteSets, TLC

VARIABLES
    categories,   \* actor flag 'categories': sequence of plain category objects
    items,        \* actor.items of type note: item id -> system.category, or Absent
    notes,        \* actor flag 'notes': sequence of plain note objects
    version,      \* actor flag 'version', Undefined when never set
    migrated,     \* history: runMigrations has returned for this actor
    now,          \* Date.now()
    note,         \* a Note instance held by a caller, NoNote when there is none
    page,         \* a JournalEntryPage document, NoPage when there is none
    last,         \* the most recent call: operation, name given (manager's create),
                  \* error kind, persistence calls
    listed,       \* what the most recent read of the categories returned
    tasks,        \* the invocations in progress: position and local variables
    started,      \* the number of invocations begun
    heap,         \* the objects of two Note instances, by address
    source,       \* a Note instance, its text, flags and _stats held by address
    copy          \* the instance made by source.clone()

vars == <<categories, items, notes, version, migrated, now, note, page, last,
          listed, tasks, started, heap, source, copy>>

----------------------------------------------------------------------------
(* Bounds of the model *)

MaxCats == 2        \* categories an actor may hold
MaxItems == 2       \* note items an actor may hold
NumKeys == 5        \* size of the pool randomID draws from
MaxNotes == 2       \* notes the flag 'notes' may hold
MaxSort == 2        \* largest sort value a created note may get

----------------------------------------------------------------------------
(* Values *)

Undefined == -1                      \* getFlag result for a flag never set
Absent == "absent"                   \* an item id with no document
NoCategory == ""                     \* system.category of an uncategorized note

KeyNames == <<"k1", "k2", "k3", "k4", "k5", "k6", "k7", "k8">>
KeyPool == {KeyNames[i] : i \in 1..NumKeys}
ItemIds == 1..MaxItems

\* strings are sequences of character codes, so that case folding is computed
NotesName == <<78, 111, 116, 101, 115>>                \* "Notes"
NotesLower == <<110, 111, 116, 101, 115>>              \* "notes"
CombatName == <<67, 111, 109, 98, 97, 116>>            \* "Combat"
CombatLower == <<99, 111, 109, 98, 97, 116>>           \* "combat"
NewCategoryName == <<78, 101, 119, 32, 67, 97, 116, 101, 103, 111, 114, 121>>
EmptyName == << >>
TooLongName == [i \in 1..51 |-> 65]                    \* 51 times "A"

CATEGORY_ORDERING_ALPHABETICAL == 0
CATEGORY_ORDERING_MANUAL == 1
MIGRATION_VERSION == 1

ToLowerChar(c) == IF c >= 65 /\ c <= 90 THEN c + 32 ELSE c
toLowerCase(s) == [i \in DOMAIN s |-> ToLowerChar(s[i])]

----------------------------------------------------------------------------
(* foundry.utils.mergeObject on flat objects: fields of other overwrite    *)
(* or are inserted into original.                                          *)
mergeObject(original, other) ==
    [f \in (DOMAIN original) \cup (DOMAIN other) |->
        IF f \in DOMAIN other THEN other[f] ELSE original[f]]

\* Category.toObject: exactly the four stored fields
toObject(c) ==
    [key |-> c.key, name |-> c.name, ordering |-> c.ordering, collapsed |-> c.collapsed]

\* Category.validate: "none" or the kind of the error thrown
validate(c) ==
    IF c.key = "" THEN "Validation"
    ELSE IF c.name = EmptyName THEN "Validation"
    ELSE IF Len(c.name) > 50 THEN "Validation"
    ELSE IF c.ordering # CATEGORY_ORDERING_ALPHABETICAL /\ c.ordering # CATEGORY_ORDERING_MANUAL
         THEN "Validation"
    ELSE "none"

\* keys in use anywhere in the actor's data
UsedKeys ==
    {categories[i].key : i \in DOMAIN categories}
        \cup {items[n] : n \in {m \in ItemIds : items[m] \notin {Absent, NoCategory}}}

\* foundry.utils.randomID: an identifier not in use (the first free one of the pool)
HasFreshKey == KeyPool \ UsedKeys # {}
randomID ==
    LET free == {i \in 1..NumKeys : KeyNames[i] \notin UsedKeys}
    IN KeyNames[CHOOSE i \in free : \A j \in free : i <= j]

\* new Category(data, actor): the instance and the outcome of validate
Construct(data, actor) ==
    LET defaults == [key |-> randomID, name |-> NewCategoryName,
                     ordering |-> CATEGORY_ORDERING_ALPHABETICAL, collapsed |-> FALSE]
        categoryData == mergeObject(defaults, data)
        inst == [key |-> categoryData.key, name |-> categoryData.name,
                 ordering |-> categoryData.ordering, collapsed |-> categoryData.collapsed,
                 actor |-> actor]
    IN [inst |-> inst, err |-> validate(inst)]

\* nameExists comparing the names as they are written
nameExists_caseSensitive(cats, name, excludeKey) ==
    \E i \in DOMAIN cats : cats[i].key # excludeKey /\ cats[i].name = name

\* Category.nameExists
nameExists(cats, name, excludeKey) ==
    LET lowerName == toLowerCase(name)
    IN \E i \in DOMAIN cats :
          cats[i].key # excludeKey /\ toLowerCase(cats[i].name) = lowerName

NoExclude == "null"

\* Array.findIndex(c => c.key === key), 0 when there is none
findIndex(cats, key) ==
    IF \E i \in DOMAIN cats : cats[i].key = key
    THEN CHOOSE i \in DOMAIN cats :
            cats[i].key = key /\ \A j \in 1..(i - 1) : cats[j].key # key
    ELSE 0

\* Array.filter(c => c.key !== key)
filterOut(cats, key) == SelectSeq(cats, LAMBDA c : c.key # key)

NoRet == [none |-> TRUE]
NotAnArray == <<"no array">>         \* stands for an argument that is no array

\* the record kept of a call
Called(op, arg, err, writes) ==
    [op |-> op, arg |-> arg, err |-> err, writes |-> writes]

----------------------------------------------------------------------------
(* Results of an operation: the data it leaves persisted, the kind of error *)
(* it threw ("none" when it returned), the number of persistence calls it   *)
(* made (setFlag, item update, updateEmbeddedDocuments) and its return      *)
(* value.                                                                   *)
Result(cats, its, ver, err, writes, ret) ==
    [cats |-> cats, its |-> its, ver |-> ver, err |-> err, writes |-> writes, ret |-> ret]

\* actor.items.filter(note => note.system.category === key)
notesInCategory(its, key) == {n \in ItemIds : its[n] = key}

\* actor.items.filter(note => !note.system.category || note.system.category === '')
uncategorizedNotes(its) == {n \in ItemIds : its[n] = NoCategory}

\* actor.items.some(item => item.type === 'dnd5e-sheet-notes.note')
hasAnyNotes(its) == \E n \in ItemIds : its[n] # Absent

\* the items after item.update({'system.category': value}) on each note of ids
setCategory(its, ids, value) ==
    [n \in ItemIds |-> IF n \in ids THEN value ELSE its[n]]

----------------------------------------------------------------------------
(* CategoryManager (services/category_manager.js) *)

CategoryManager_create(cats, its, ver, data) ==
    LET c == Construct(data, FALSE)
    IN IF c.err # "none" THEN Result(cats, its, ver, c.err, 0, NoRet)
       ELSE IF nameExists(cats, c.inst.name, NoExclude)
            THEN Result(cats, its, ver, "DuplicateName", 0, NoRet)
       ELSE Result(Append(cats, toObject(c.inst)), its, ver, "none", 1, toObject(c.inst))

\* Category.update of entities/category.js up to its first await: the error
\* it throws ("none" when it reaches setFlag), the instance as it leaves it
\* and the list it persists.
Category_update(inst, cats, updates) ==
    LET currentData == toObject(inst)
        mergedData == mergeObject(currentData, updates)
        renamesDefault == /\ inst.name = NotesName
                          /\ "name" \in DOMAIN updates
                          /\ updates.name # EmptyName
                          /\ updates.name # NotesName
        updated == [inst EXCEPT !.name = mergedData.name,
                                !.ordering = mergedData.ordering,
                                !.collapsed = mergedData.collapsed]
        categoryIndex == findIndex(cats, inst.key)
    IN IF ~inst.actor THEN [err |-> "NoActor", inst |-> inst, cats |-> cats]
       ELSE IF renamesDefault THEN [err |-> "DefaultCategory", inst |-> inst, cats |-> cats]
       ELSE IF validate(updated) # "none"
            THEN [err |-> "Validation", inst |-> updated, cats |-> cats]
       ELSE IF categoryIndex = 0 THEN [err |-> "NotFound", inst |-> updated, cats |-> cats]
       ELSE [err |-> "none", inst |-> updated,
             cats |-> [cats EXCEPT ![categoryIndex] = toObject(updated)]]

\* CategoryManager.update: the instance is built without an actor and the
\* promise of category.update(updates) is not awaited, so a rejection of it
\* is not an error of this call.
CategoryManager_update(cats, its, ver, categoryKey, updates) ==
    LET categoryIndex == findIndex(cats, categoryKey)
        category == Construct(cats[categoryIndex], FALSE).inst
        renamed == /\ "name" \in DOMAIN updates
                   /\ updates.name # EmptyName
                   /\ updates.name # category.name
        applied == Category_update(category, cats, updates).inst
    IN IF categoryKey = "" THEN Result(cats, its, ver, "Argument", 0, NoRet)
       ELSE IF categoryIndex = 0 THEN Result(cats, its, ver, "NotFound", 0, NoRet)
       ELSE IF renamed /\ nameExists(cats, updates.name, categoryKey)
            THEN Result(cats, its, ver, "DuplicateName", 0, NoRet)
       ELSE Result([cats EXCEPT ![categoryIndex] = toObject(applied)], its, ver,
                   "none", 1, toObject(applied))

\* a delete that removes the category and leaves the notes as they are
CategoryManager_delete_noCascade(cats, its, ver, categoryKey) ==
    LET filteredCategories == filterOut(cats, categoryKey)
    IN IF categoryKey = "" THEN Result(cats, its, ver, "Argument", 0, NoRet)
       ELSE IF Len(filteredCategories) = Len(cats)
            THEN Result(cats, its, ver, "NotFound", 0, NoRet)
       ELSE Result(filteredCategories, its, ver, "none", 1, NoRet)

CategoryManager_delete(cats, its, ver, categoryKey) ==
    LET filteredCategories == filterOut(cats, categoryKey)
        inCategory == notesInCategory(its, categoryKey)
    IN IF categoryKey = "" THEN Result(cats, its, ver, "Argument", 0, NoRet)
       ELSE IF Len(filteredCategories) = Len(cats)
            THEN Result(cats, its, ver, "NotFound", 0, NoRet)
       ELSE Result(filteredCategories, setCategory(its, inCategory, NoCategory), ver, "none",
                   (IF inCategory # {} THEN 1 ELSE 0) + 1, NoRet)

\* CategoryManager.reorderCategories: every key must be stored; the list is
\* written back as it is
CategoryManager_reorderCategories(cats, its, ver, categoryKeys) ==
    IF categoryKeys = NotAnArray THEN Result(cats, its, ver, "Argument", 0, NoRet)
    ELSE IF \E i \in DOMAIN categoryKeys : findIndex(cats, categoryKeys[i]) = 0
         THEN Result(cats, its, ver, "NotFound", 0, NoRet)
    ELSE Result(cats, its, ver, "none", 1, NoRet)

----------------------------------------------------------------------------
(* Category entity bound to an actor (entities/category.js) *)

Category_create(cats, its, ver, data) ==
    LET c == Construct(data, TRUE)
    IN IF c.err # "none" THEN Result(cats, its, ver, c.err, 0, NoRet)
       ELSE IF nameExists(cats, c.inst.name, NoExclude)
            THEN Result(cats, its, ver, "DuplicateName", 0, NoRet)
       ELSE Result(Append(cats, toObject(c.inst)), its, ver, "none", 1, toObject(c.inst))

\* Category.fromActor(actor, key), for a key that is stored
fromActor(cats, key) == Construct(cats[findIndex(cats, key)], TRUE).inst

\* fromActor(actor, key).update(updates)
Category_updateStored(cats, its, ver, key, updates) ==
    LET u == Category_update(fromActor(cats, key), cats, updates)
    IN IF u.err # "none" THEN Result(cats, its, ver, u.err, 0, NoRet)
       ELSE Result(u.cats, its, ver, "none", 1, toObject(u.inst))

\* fromActor(actor, key).delete()
Category_delete(cats, its, ver, key) ==
    LET inst == fromActor(cats, key)
        filteredCategories == filterOut(cats, inst.key)
        notesOfCategory == notesInCategory(its, inst.key)
    IN IF inst.name = NotesName THEN Result(cats, its, ver, "DefaultCategory", 0, NoRet)
       ELSE Result(filteredCategories, setCategory(its, notesOfCategory, NoCategory), ver,
                   "none", Cardinality(notesOfCategory) + 1, NoRet)

\* an ensureDefault that creates the default category whenever there is none
Category_ensureDefault_always(cats, its, ver) ==
    LET hasDefault == \E i \in DOMAIN cats : cats[i].name = NotesName
        defaultCategory == [key |-> randomID, name |-> NotesName,
                            ordering |-> 0, collapsed |-> FALSE]
    IN IF hasDefault THEN Result(cats, its, ver, "none", 0, NoRet)
       ELSE Result(<<defaultCategory>> \o cats, its, ver, "none", 1, defaultCategory)

Category_ensureDefault(cats, its, ver) ==
    LET hasDefault == \E i \in DOMAIN cats : cats[i].name = NotesName
        defaultCategory == [key |-> randomID, name |-> NotesName,
                            ordering |-> 0, collapsed |-> FALSE]
    IN IF hasDefault
       THEN Result(cats, its, ver, "none", 0,
                   cats[CHOOSE i \in DOMAIN cats :
                          cats[i].name = NotesName
                          /\ \A j \in 1..(i - 1) : cats[j].name # NotesName])
       ELSE IF uncategorizedNotes(its) # {}
            THEN Result(<<defaultCategory>> \o cats, its, ver, "none", 1, defaultCategory)
       ELSE Result(cats, its, ver, "none", 0, NoRet)

----------------------------------------------------------------------------
(* Migrations (migrations/v1.js and the migration runner) *)

\* a migration that appends the default category instead of prepending it
migrateToV1_push(cats, its, ver) ==
    LET hasDefaultCategory == \E i \in DOMAIN cats : cats[i].name = NotesName
        uncategorized == uncategorizedNotes(its)
        defaultCategory == [key |-> randomID, name |-> NotesName,
                            ordering |-> 0, collapsed |-> FALSE]
    IN IF ~hasDefaultCategory /\ uncategorized # {}
       THEN Result(Append(cats, defaultCategory),
                   setCategory(its, uncategorized, defaultCategory.key), ver, "none",
                   1 + Cardinality(uncategorized), NoRet)
       ELSE Result(cats, its, ver, "none", 0, NoRet)

migrateToV1(cats, its, ver) ==
    LET hasDefaultCategory == \E i \in DOMAIN cats : cats[i].name = NotesName
        uncategorized == uncategorizedNotes(its)
        defaultCategory == [key |-> randomID, name |-> NotesName,
                            ordering |-> 0, collapsed |-> FALSE]
    IN IF ~hasDefaultCategory /\ uncategorized # {}
       THEN Result(<<defaultCategory>> \o cats,
                   setCategory(its, uncategorized, defaultCategory.key), ver, "none",
                   1 + Cardinality(uncategorized), NoRet)
       ELSE Result(cats, its, ver, "none", 0, NoRet)

\* the versions whose upgrade procedure runMigrations invokes: none when it
\* returns early or takes the brand-new path, else those of MIGRATIONS from
\* the one after the stored version up to the latest
migrationsInvoked(cats, its, ver) ==
    LET startVersion == IF ver = Undefined THEN 0 ELSE ver
    IN IF ver # Undefined /\ ver >= MIGRATION_VERSION THEN {}
       ELSE IF ver = Undefined /\ ~hasAnyNotes(its) /\ Len(cats) = 0 THEN {}
       ELSE {v \in (startVersion + 1)..MIGRATION_VERSION : v = 1}

\* a runner that does not store the version after the upgrade procedures
runMigrations_noStamp(cats, its, ver) ==
    LET m == migrateToV1(cats, its, ver)
    IN IF ver # Undefined /\ ver >= MIGRATION_VERSION
       THEN Result(cats, its, ver, "none", 0, NoRet)
       ELSE IF ver = Undefined /\ ~hasAnyNotes(its) /\ Len(cats) = 0
            THEN Result(cats, its, MIGRATION_VERSION, "none", 1, NoRet)
       ELSE Result(m.cats, m.its, ver, "none", m.writes, NoRet)

\* a runner that gives a brand-new actor its default category at once
runMigrations_defaultForNew(cats, its, ver) ==
    LET m == migrateToV1(cats, its, ver)
        defaultCategory == [key |-> randomID, name |-> NotesName,
                            ordering |-> 0, collapsed |-> FALSE]
    IN IF ver # Undefined /\ ver >= MIGRATION_VERSION
       THEN Result(cats, its, ver, "none", 0, NoRet)
       ELSE IF ver = Undefined /\ ~hasAnyNotes(its) /\ Len(cats) = 0
            THEN Result(<<defaultCategory>>, its, MIGRATION_VERSION, "none", 2, NoRet)
       ELSE Result(m.cats, m.its, MIGRATION_VERSION, "none", m.writes + 1, NoRet)

\* a runner that returns early only above the latest version
runMigrations_rerun(cats, its, ver) ==
    LET currentVersion == ver
        hasCategories == Len(cats) > 0
        m == migrateToV1(cats, its, ver)
    IN IF currentVersion # Undefined /\ currentVersion > MIGRATION_VERSION
       THEN Result(cats, its, ver, "none", 0, NoRet)
       ELSE IF currentVersion = Undefined /\ ~hasAnyNotes(its) /\ ~hasCategories
            THEN Result(cats, its, MIGRATION_VERSION, "none", 1, NoRet)
       ELSE Result(m.cats, m.its, MIGRATION_VERSION, "none", m.writes + 1, NoRet)

runMigrations(cats, its, ver) ==
    LET currentVersion == ver
        hasCategories == Len(cats) > 0
        startVersion == IF currentVersion = Undefined THEN 0 ELSE currentVersion
        m == IF startVersion + 1 <= 1 /\ 1 <= MIGRATION_VERSION
             THEN migrateToV1(cats, its, ver)
             ELSE Result(cats, its, ver, "none", 0, NoRet)
    IN IF currentVersion # Undefined /\ currentVersion >= MIGRATION_VERSION
       THEN Result(cats, its, ver, "none", 0, NoRet)
       ELSE IF currentVersion = Undefined /\ ~hasAnyNotes(its) /\ ~hasCategories
            THEN Result(cats, its, MIGRATION_VERSION, "none", 1, NoRet)
       ELSE Result(m.cats, m.its, MIGRATION_VERSION, "none", m.writes + 1, NoRet)

----------------------------------------------------------------------------
(* Reading the categories: CategoryManager.getAllCategories and the data of *)
(* the notes tab.                                                           *)

\* the order of two sequences of character codes: -1, 0 or 1
RECURSIVE codeCompare(_, _)
codeCompare(a, b) ==
    IF a = << >> /\ b = << >> THEN 0
    ELSE IF a = << >> THEN -1
    ELSE IF b = << >> THEN 1
    ELSE IF Head(a) < Head(b) THEN -1
    ELSE IF Head(a) > Head(b) THEN 1
    ELSE codeCompare(Tail(a), Tail(b))

\* a comparison by character codes alone, capitals before small letters
localeCompare_byCode(a, b) == codeCompare(a, b)

\* String.localeCompare on names of letters and spaces: the letters decide
\* whatever their case, and between names that differ in case only the small
\* letter comes first
localeCompare(a, b) ==
    LET letters == codeCompare(toLowerCase(a), toLowerCase(b))
    IN IF letters # 0 THEN letters ELSE 0 - codeCompare(a, b)

\* the place of c in a list sorted by name: after the entries that do not
\* come after it (Array.sort is stable)
RECURSIVE insertByName(_, _)
insertByName(c, sorted) ==
    IF sorted = << >> THEN <<c>>
    ELSE IF localeCompare(c.name, Head(sorted).name) < 0 THEN <<c>> \o sorted
    ELSE <<Head(sorted)>> \o insertByName(c, Tail(sorted))

\* Array.sort((a, b) => a.name.localeCompare(b.name))
RECURSIVE sortByName(_)
sortByName(cats) ==
    IF cats = << >> THEN << >>
    ELSE insertByName(cats[Len(cats)], sortByName(SubSeq(cats, 1, Len(cats) - 1)))

\* CategoryManager.getAllCategories: an instance of each stored category, the
\* new array sorted by name; a stored category that does not validate makes
\* the constructor throw
getAllCategories(cats) ==
    LET made == [i \in DOMAIN cats |-> Construct(cats[i], FALSE)]
    IN IF \E i \in DOMAIN cats : made[i].err # "none"
       THEN [err |-> "Validation", ret |-> << >>]
       ELSE [err |-> "none", ret |-> sortByName([i \in DOMAIN cats |-> made[i].inst])]

\* the notes listed under a category of the notes tab: the notes without a
\* category under each category named "Notes", the others under the category
\* whose key they hold
categoryNotes(category, its) ==
    {n \in ItemIds :
        /\ its[n] # Absent
        /\ IF its[n] = NoCategory THEN category.name = NotesName
           ELSE its[n] = category.key}

\* getNotesTabData: what it persists (the default category, if it had to be
\* made) and the categories it lists, sorted by name, each with its notes
getNotesTabData(cats, its, ver) ==
    LET ensured == Category_ensureDefault(cats, its, ver)
        sorted == sortByName(ensured.cats)
    IN [cats |-> ensured.cats, writes |-> ensured.writes,
        categories |-> [i \in DOMAIN sorted |->
                          [key |-> sorted[i].key, name |-> sorted[i].name,
                           isDefault |-> sorted[i].name = NotesName,
                           notes |-> categoryNotes(sorted[i], its),
                           noteCount |-> Cardinality(categoryNotes(sorted[i], its))]]]

----------------------------------------------------------------------------
(* Note (models/Note.js) and NoteManager, on the actor flag 'notes'.  The   *)
(* sort of a note is always a number, its text and _stats always objects    *)
(* and text.content always a string here, so validate can fail on the key,  *)
(* the name and the format only.                                            *)

MODULE_ID == "dnd5e-sheet-notes"
CurrentUser == "gm"                                    \* game.user.id
NoNote == [key |-> ""]
NoPage == [uuid |-> ""]

\* the invocations that can be in progress at once, and one that is not
TaskIds == {"a", "b"}
MaxCalls == 3       \* invocations begun in one behaviour
\* an invocation's record: the operation, where it waits (pc; was holds it for
\* one that was interrupted) and its local variables
Idle == [op |-> "idle", pc |-> "idle", was |-> "", key |-> "", n |-> 0,
         target |-> "", local |-> <<>>, ids |-> {}, refs |-> {}]
NoTasks == [t \in TaskIds |-> Idle]

\* the addresses of objects, and an address that holds none
Addrs == 1..24
Free == [free |-> TRUE]
EmptyHeap == [a \in Addrs |-> Free]

NoteKeyNames == <<"n1", "n2", "n3", "n4", "n5", "n6">>
QuestName == <<81, 117, 101, 115, 116>>                \* "Quest"
LoreName == <<76, 111, 114, 101>>                      \* "Lore"
NewNoteName == <<78, 101, 119, 32, 78, 111, 116, 101>> \* "New Note"
FORMAT_HTML == 1
FORMAT_MARKDOWN == 2
DefaultSort == 100000

\* randomID for a note: the first identifier no stored note has
noteRandomID(nts) ==
    LET free == {i \in DOMAIN NoteKeyNames :
                    \A j \in DOMAIN nts : nts[j].key # NoteKeyNames[i]}
    IN NoteKeyNames[CHOOSE i \in free : \A j \in free : i <= j]

\* mergeObject on flags: the namespaces of both, a namespace of both merged
\* field by field
mergeFlags(original, other) ==
    [ns \in (DOMAIN original) \cup (DOMAIN other) |->
        IF ns \notin DOMAIN other THEN original[ns]
        ELSE IF ns \in DOMAIN original THEN mergeObject(original[ns], other[ns])
        ELSE other[ns]]

\* mergeObject on note data: it is recursive, so text, _stats and flags are
\* merged field by field and every other field is overwritten
mergeNoteData(original, other) ==
    [f \in (DOMAIN original) \cup (DOMAIN other) |->
        IF f \notin DOMAIN other THEN original[f]
        ELSE IF f \notin DOMAIN original THEN other[f]
        ELSE IF f = "flags" THEN mergeFlags(original[f], other[f])
        ELSE IF f \in {"text", "_stats"} THEN mergeObject(original[f], other[f])
        ELSE other[f]]

\* Note.toObject: markdown is included only when it is defined
noteToObject(n) ==
    [key |-> n.key, name |-> n.name, sort |-> n.sort,
     text |-> IF "markdown" \in DOMAIN n.text
              THEN [content |-> n.text.content, format |-> n.text.format,
                    markdown |-> n.text.markdown]
              ELSE [content |-> n.text.content, format |-> n.text.format],
     flags |-> n.flags,
     _stats |-> n._stats]

\* Note.validate
noteValidate(n) ==
    IF n.key = "" THEN "Validation"
    ELSE IF n.name = EmptyName THEN "Validation"
    ELSE IF n.text.format # FORMAT_HTML /\ n.text.format # FORMAT_MARKDOWN THEN "Validation"
    ELSE "none"

\* new Note(data)
ConstructNote(nts, data) ==
    LET defaults == [key |-> noteRandomID(nts), name |-> NewNoteName, sort |-> DefaultSort,
                     text |-> [content |-> "", format |-> FORMAT_HTML],
                     flags |-> (MODULE_ID :> [category |-> "null"]),
                     _stats |-> [createdTime |-> now, modifiedTime |-> now,
                                 lastModifiedBy |-> CurrentUser]]
        noteData == mergeNoteData(defaults, data)
        inst == [key |-> noteData.key, name |-> noteData.name, sort |-> noteData.sort,
                 text |-> noteData.text, flags |-> noteData.flags,
                 _stats |-> noteData._stats]
    IN [inst |-> inst, err |-> noteValidate(inst)]

\* Note.update: the stamp is merged into the updates, the result into the
\* current data; key is kept, the other fields come from the merged data
Note_update(inst, updates) ==
    LET updateData == mergeNoteData(updates,
                          [_stats |-> [modifiedTime |-> now,
                                       lastModifiedBy |-> CurrentUser]])
        currentData == noteToObject(inst)
        mergedData == mergeNoteData(currentData, updateData)
        updated == [inst EXCEPT !.name = mergedData.name, !.sort = mergedData.sort,
                                !.text = mergedData.text, !.flags = mergedData.flags,
                                !._stats = mergedData._stats]
    IN [inst |-> updated, err |-> noteValidate(updated)]

NoteResult(nts, err, writes) == [nts |-> nts, err |-> err, writes |-> writes]

RECURSIVE maxSortOf(_)
maxSortOf(nts) ==
    IF nts = << >> THEN 0
    ELSE LET rest == maxSortOf(Tail(nts))
         IN IF Head(nts).sort > rest THEN Head(nts).sort ELSE rest

noteFindIndex(nts, key) ==
    IF \E i \in DOMAIN nts : nts[i].key = key
    THEN CHOOSE i \in DOMAIN nts : nts[i].key = key /\ \A j \in 1..(i - 1) : nts[j].key # key
    ELSE 0

\* a createNote that numbers the new note by the length of the list
NoteManager_createNote_byCount(nts, noteData) ==
    LET withSort == IF "sort" \in DOMAIN noteData THEN noteData
                    ELSE mergeObject(noteData, [sort |-> Len(nts) + 1])
        c == ConstructNote(nts, withSort)
    IN IF c.err # "none" THEN NoteResult(nts, c.err, 0)
       ELSE NoteResult(Append(nts, noteToObject(c.inst)), "none", 1)

NoteManager_createNote(nts, noteData) ==
    LET withSort == IF "sort" \in DOMAIN noteData THEN noteData
                    ELSE mergeObject(noteData, [sort |-> maxSortOf(nts) + 1])
        c == ConstructNote(nts, withSort)
    IN IF c.err # "none" THEN NoteResult(nts, c.err, 0)
       ELSE NoteResult(Append(nts, noteToObject(c.inst)), "none", 1)

\* an updateNote that stores the merged note before it validates it
NoteManager_updateNote_saveFirst(nts, noteKey, updates) ==
    LET noteIndex == noteFindIndex(nts, noteKey)
        u == Note_update(ConstructNote(nts, nts[noteIndex]).inst, updates)
    IN IF noteKey = "" THEN NoteResult(nts, "Argument", 0)
       ELSE IF noteIndex = 0 THEN NoteResult(nts, "NotFound", 0)
       ELSE NoteResult([nts EXCEPT ![noteIndex] = noteToObject(u.inst)], u.err, 1)

NoteManager_updateNote(nts, noteKey, updates) ==
    LET noteIndex == noteFindIndex(nts, noteKey)
        u == Note_update(ConstructNote(nts, nts[noteIndex]).inst, updates)
    IN IF noteKey = "" THEN NoteResult(nts, "Argument", 0)
       ELSE IF noteIndex = 0 THEN NoteResult(nts, "NotFound", 0)
       ELSE IF u.err # "none" THEN NoteResult(nts, u.err, 0)
       ELSE NoteResult([nts EXCEPT ![noteIndex] = noteToObject(u.inst)], "none", 1)

NoteManager_deleteNote(nts, noteKey) ==
    LET filteredNotes == SelectSeq(nts, LAMBDA n : n.key # noteKey)
    IN IF noteKey = "" THEN NoteResult(nts, "Argument", 0)
       ELSE IF Len(filteredNotes) = Len(nts) THEN NoteResult(nts, "NotFound", 0)
       ELSE NoteResult(filteredNotes, "none", 1)

\* first loop of reorderNotes: the notes named at positions i.. of noteKeys
\* get their position as sort, one after the other
RECURSIVE assignListed(_, _, _)
assignListed(nts, noteKeys, i) ==
    IF i > Len(noteKeys) THEN nts
    ELSE assignListed([nts EXCEPT ![noteFindIndex(nts, noteKeys[i])].sort = i],
                      noteKeys, i + 1)

\* second loop of reorderNotes: the notes from index j on that noteKeys does
\* not include get sortValue, sortValue + 1, ... in stored order
RECURSIVE assignUnordered(_, _, _, _)
assignUnordered(nts, noteKeys, j, sortValue) ==
    IF j > Len(nts) THEN nts
    ELSE IF \E i \in DOMAIN noteKeys : noteKeys[i] = nts[j].key
         THEN assignUnordered(nts, noteKeys, j + 1, sortValue)
    ELSE assignUnordered([nts EXCEPT ![j].sort = sortValue], noteKeys, j + 1, sortValue + 1)

\* a reorderNotes that leaves the notes it was not given as they are
NoteManager_reorderNotes_listedOnly(nts, noteKeys) ==
    IF noteKeys = NotAnArray THEN NoteResult(nts, "Argument", 0)
    ELSE IF \E i \in DOMAIN noteKeys : noteFindIndex(nts, noteKeys[i]) = 0
         THEN NoteResult(nts, "NotFound", 0)
    ELSE NoteResult(assignListed(nts, noteKeys, 1), "none", 1)

\* NoteManager.reorderNotes: all keys are checked before any note is changed
NoteManager_reorderNotes(nts, noteKeys) ==
    IF noteKeys = NotAnArray THEN NoteResult(nts, "Argument", 0)
    ELSE IF \E i \in DOMAIN noteKeys : noteFindIndex(nts, noteKeys[i]) = 0
         THEN NoteResult(nts, "NotFound", 0)
    ELSE NoteResult(assignUnordered(assignListed(nts, noteKeys, 1), noteKeys, 1,
                                    Len(noteKeys) + 1),
                    "none", 1)

\* the category reference validateCategoryReferences reads from a stored note
categoryOf(n) ==
    IF MODULE_ID \in DOMAIN n.flags /\ "category" \in DOMAIN n.flags[MODULE_ID]
    THEN n.flags[MODULE_ID].category ELSE "null"

\* a reference that is set (truthy) and is the key of no stored category
dangling(n, cats) ==
    /\ categoryOf(n) \notin {"null", ""}
    /\ \A i \in DOMAIN cats : cats[i].key # categoryOf(n)

\* a validateCategoryReferences that clears every reference that is set
NoteManager_validateCategoryReferences_clearAll(nts, cats) ==
    LET isSet(n) == categoryOf(n) \notin {"null", ""}
        cleanedCount == Cardinality({i \in DOMAIN nts : isSet(nts[i])})
    IN [nts |-> [i \in DOMAIN nts |->
                    IF isSet(nts[i])
                    THEN [nts[i] EXCEPT !.flags[MODULE_ID].category = "null"]
                    ELSE nts[i]],
        err |-> "none", writes |-> IF cleanedCount > 0 THEN 1 ELSE 0,
        ret |-> cleanedCount]

\* a validateCategoryReferences that saves the notes whether or not it
\* changed one
NoteManager_validateCategoryReferences_alwaysSave(nts, cats) ==
    [nts |-> [i \in DOMAIN nts |->
                 IF dangling(nts[i], cats)
                 THEN [nts[i] EXCEPT !.flags[MODULE_ID].category = "null"]
                 ELSE nts[i]],
     err |-> "none", writes |-> 1,
     ret |-> Cardinality({i \in DOMAIN nts : dangling(nts[i], cats)})]

\* NoteManager.validateCategoryReferences: the notes it leaves, the writes
\* it makes and the count it returns
NoteManager_validateCategoryReferences(nts, cats) ==
    LET cleaned == [i \in DOMAIN nts |->
                       IF dangling(nts[i], cats)
                       THEN [nts[i] EXCEPT !.flags[MODULE_ID].category = "null"]
                       ELSE nts[i]]
        cleanedCount == Cardinality({i \in DOMAIN nts : dangling(nts[i], cats)})
        hasChanges == cleanedCount > 0
    IN [nts |-> cleaned, err |-> "none", writes |-> IF hasChanges THEN 1 ELSE 0,
        ret |-> cleanedCount]

----------------------------------------------------------------------------
(* Inputs offered to the operations *)

\* noteData of createNote: a name, a name and a sort value, no name, an
\* unknown text format
NoteCreateInputs ==
    {[name |-> QuestName], [name |-> QuestName, sort |-> 1], [name |-> EmptyName],
     [name |-> QuestName, text |-> [format |-> 3]]}

\* updates of updateNote: a new name and format, no name, an unknown format
NoteUpdateInputs ==
    {[name |-> LoreName, text |-> [format |-> FORMAT_MARKDOWN]], [name |-> EmptyName],
     [text |-> [format |-> 3]]}

StoredNoteKeys == {notes[i].key : i \in DOMAIN notes}
NoteKeyInputs == StoredNoteKeys \cup {"missing", ""}

\* orders given to reorderNotes and reorderCategories: no array, one stored
\* key, two different stored keys, a stored key followed by one that is not
OrderInputs(stored) ==
    {NotAnArray} \cup {<<k>> : k \in stored}
        \cup UNION {{<<k1, k2>> : k2 \in (stored \ {k1}) \cup {"missing"}} : k1 \in stored}

\* categoryData of create: a name, valid or not
CreateInputs ==
    {[name |-> n] : n \in {NotesName, NotesLower, CombatName, EmptyName, TooLongName}}

\* categoryData given to the manager's create: names that differ in case
\* only, a valid other name, invalid names, a name with an explicit key
ManagerCreateInputs ==
    {[name |-> n] : n \in {NotesName, CombatName, CombatLower, EmptyName, TooLongName}}
        \cup {[name |-> CombatName, key |-> KeyNames[1]]}

\* updates of the category editor: a new name, valid or not
UpdateInputs ==
    {[name |-> n] : n \in {NotesName, NotesLower, CombatName, EmptyName}}

\* updates given to the manager: a new name, new modes, both, or an
\* ordering that is not one of the two modes
ManagerUpdateInputs ==
    {[name |-> n] : n \in {NotesName, NotesLower}}
        \cup {[ordering |-> CATEGORY_ORDERING_MANUAL, collapsed |-> TRUE],
              [name |-> CombatName, ordering |-> CATEGORY_ORDERING_MANUAL, collapsed |-> TRUE],
              [name |-> EmptyName, ordering |-> 2]}

StoredKeys == {categories[i].key : i \in DOMAIN categories}

\* keys given to the manager: a stored one, one that is not stored, none
MissingKey == "missing"
KeyInputs == StoredKeys \cup {MissingKey, ""}

----------------------------------------------------------------------------
(* The state machine *)

Init ==
    /\ categories = << >>
    /\ items = [n \in ItemIds |-> Absent]
    /\ notes = << >>
    /\ now = 0
    /\ note = NoNote
    /\ page = NoPage
    /\ version = Undefined
    /\ migrated = FALSE
    /\ last = Called("init", EmptyName, "none", 0)
    /\ listed = NoRet
    /\ tasks = NoTasks
    /\ started = 0
    /\ heap = EmptyHeap
    /\ source = NoNote
    /\ copy = NoNote

\* the call op ended as result says
Finish(op, arg, result) ==
  \E r \in {result} :
    /\ Len(r.cats) <= MaxCats
    /\ categories' = r.cats
    /\ items' = r.its
    /\ version' = r.ver
    /\ UNCHANGED <<notes, now, note, page,
                   listed, tasks, started, heap, source, copy>>
    /\ migrated' = (migrated \/ op = "runMigrations")
    /\ last' = Called(op, arg, r.err, r.writes)

CallCategoryManagerCreate(data) ==
    /\ HasFreshKey
    /\ Finish("CategoryManager.create", data.name,
              CategoryManager_create(categories, items, version, data))

CallCategoryManagerUpdate(key, updates) ==
    /\ HasFreshKey
    /\ Finish("CategoryManager.update", EmptyName,
              CategoryManager_update(categories, items, version, key, updates))

CallCategoryManagerDelete(key) ==
    Finish("CategoryManager.delete", EmptyName,
           CategoryManager_delete(categories, items, version, key))

CallReorderCategories(categoryKeys) ==
    Finish("CategoryManager.reorderCategories", EmptyName,
           CategoryManager_reorderCategories(categories, items, version, categoryKeys))

\* the call op of the note manager ended as r says
FinishNotes(op, result) ==
  \E r \in {result} :
    /\ Len(r.nts) <= MaxNotes
    /\ \A i \in DOMAIN r.nts : r.nts[i].sort <= MaxSort
    /\ notes' = r.nts
    /\ UNCHANGED <<categories, items, version, migrated, now, note, page,
                   listed, tasks, started, heap, source, copy>>
    /\ last' = Called(op, EmptyName, r.err, r.writes)

CallCreateNote(noteData) ==
    FinishNotes("NoteManager.createNote", NoteManager_createNote(notes, noteData))

CallUpdateNote(noteKey, updates) ==
    FinishNotes("NoteManager.updateNote", NoteManager_updateNote(notes, noteKey, updates))

CallDeleteNote(noteKey) ==
    FinishNotes("NoteManager.deleteNote", NoteManager_deleteNote(notes, noteKey))

CallReorderNotes(noteKeys) ==
    FinishNotes("NoteManager.reorderNotes", NoteManager_reorderNotes(notes, noteKeys))

CallCategoryCreate(data) ==
    /\ HasFreshKey
    /\ Finish("Category.create", EmptyName,
              Category_create(categories, items, version, data))

CallCategoryUpdate(key, updates) ==
    /\ key \in StoredKeys
    /\ HasFreshKey
    /\ Finish("Category.update", EmptyName,
              Category_updateStored(categories, items, version, key, updates))

CallCategoryDelete(key) ==
    /\ key \in StoredKeys
    /\ HasFreshKey
    /\ Finish("Category.delete", EmptyName,
              Category_delete(categories, items, version, key))

CallEnsureDefault ==
    /\ HasFreshKey
    /\ Finish("Category.ensureDefault", EmptyName,
              Category_ensureDefault(categories, items, version))

CallRunMigrations ==
    /\ HasFreshKey
    /\ Finish("runMigrations", EmptyName, runMigrations(categories, items, version))

\* the sheet's add-note button: createEmbeddedDocuments with system.category ''
CreateNoteItem(n) ==
    /\ items[n] = Absent
    /\ items' = [items EXCEPT ![n] = NoCategory]
    /\ UNCHANGED <<categories, notes, version, migrated, now, note, page,
                   listed, tasks, started, heap, source, copy>>
    /\ last' = Called("Item.create", EmptyName, "none", 1)

\* handleNoteDrop: a note dropped on the section of a stored category.  The
\* handler first ensures the default category, then sets system.category to
\* the target, '' for the category named "Notes", unless the note is there
MoveNoteItem(n, key) ==
    LET ensured == Category_ensureDefault(categories, items, version)
        targetCategoryObj == ensured.cats[findIndex(ensured.cats, key)]
        targetCategory == IF targetCategoryObj.name = NotesName THEN NoCategory ELSE key
        currentCategory == items[n]
        moved == currentCategory # targetCategory
    IN /\ items[n] # Absent
       /\ key \in StoredKeys
       /\ HasFreshKey
       /\ Finish("handleNoteDrop", EmptyName,
                 Result(ensured.cats,
                        IF moved THEN setCategory(items, {n}, targetCategory) ELSE items,
                        version, "none", ensured.writes + (IF moved THEN 1 ELSE 0), NoRet))

\* note.delete()
DeleteNoteItem(n) ==
    /\ items[n] # Absent
    /\ items' = [items EXCEPT ![n] = Absent]
    /\ UNCHANGED <<categories, notes, version, migrated, now, note, page,
                   listed, tasks, started, heap, source, copy>>
    /\ last' = Called("Item.delete", EmptyName, "none", 1)

\* the calls the sheet makes: the category editor, the notes tab and the
\* host's item documents
Next ==
    \/ \E data \in CreateInputs : CallCategoryCreate(data)
    \/ \E key \in StoredKeys, updates \in UpdateInputs : CallCategoryUpdate(key, updates)
    \/ \E key \in StoredKeys : CallCategoryDelete(key)
    \/ \E key \in KeyInputs : CallCategoryManagerDelete(key)
    \/ CallEnsureDefault
    \/ CallRunMigrations
    \/ \E n \in ItemIds : CreateNoteItem(n)
    \/ \E n \in ItemIds, key \in StoredKeys : MoveNoteItem(n, key)
    \/ \E n \in ItemIds : DeleteNoteItem(n)

Spec == Init /\ [][Next]_vars

\* the calls of the manager service
NextManagers ==
    \/ \E data \in ManagerCreateInputs : CallCategoryManagerCreate(data)
    \/ \E key \in KeyInputs, updates \in ManagerUpdateInputs :
          CallCategoryManagerUpdate(key, updates)
    \/ \E key \in KeyInputs : CallCategoryManagerDelete(key)
    \/ \E categoryKeys \in OrderInputs(StoredKeys) : CallReorderCategories(categoryKeys)
    \/ \E noteData \in NoteCreateInputs : CallCreateNote(noteData)
    \/ \E noteKey \in NoteKeyInputs, updates \in NoteUpdateInputs :
          CallUpdateNote(noteKey, updates)
    \/ \E noteKey \in NoteKeyInputs : CallDeleteNote(noteKey)
    \/ \E noteKeys \in OrderInputs(StoredNoteKeys) : CallReorderNotes(noteKeys)

SpecManagers == Init /\ [][NextManagers]_vars

----------------------------------------------------------------------------
(* The note manager on the note lists an actor can hold: the lists are      *)
(* drawn at the start, then createNote, reorderNotes and                    *)
(* validateCategoryReferences act on them.                                  *)

\* sort values stored notes start with: a negative one and 1..MaxSort
InitSorts == {-1} \cup 1..MaxSort

\* category references stored notes start with: none, and two keys
InitRefs == {"null", "k1", "k2"}

\* the stored form of a note created with the given key, sort and category
StoredNote(key, sort, category) ==
    noteToObject(ConstructNote(<< >>, [key |-> key, name |-> QuestName, sort |-> sort,
                                       flags |-> (MODULE_ID :> [category |-> category])]).inst)

\* the lists of at most MaxNotes stored notes with keys n1, n2, ... in order
InitNoteLists ==
    UNION {{[i \in 1..n |-> StoredNote(NoteKeyNames[i], f[i].sort, f[i].category)] :
               f \in [1..n -> [sort : InitSorts, category : InitRefs]]} :
           n \in 0..MaxNotes}

\* the category lists the references are checked against: none, or one
\* category with key k1
InitCategoryLists ==
    {<< >>, <<[key |-> "k1", name |-> CombatName,
              ordering |-> CATEGORY_ORDERING_ALPHABETICAL, collapsed |-> FALSE]>>}

InitNoteList ==
    /\ now = 0
    /\ note = NoNote
    /\ page = NoPage
    /\ categories \in InitCategoryLists
    /\ items = [n \in ItemIds |-> Absent]
    /\ notes \in InitNoteLists
    /\ version = Undefined
    /\ migrated = FALSE
    /\ last = Called("init", EmptyName, "none", 0)
    /\ listed = NoRet
    /\ tasks = NoTasks
    /\ started = 0
    /\ heap = EmptyHeap
    /\ source = NoNote
    /\ copy = NoNote

\* noteData of createNote: no sort, an explicit sort, no name
NoteListCreateInputs ==
    {[name |-> LoreName], [name |-> LoreName, sort |-> -1], [name |-> EmptyName]}

\* orders given to reorderNotes: no array, one key, two keys (also the same
\* key twice), stored or not
NoteListOrderInputs ==
    LET ks == StoredNoteKeys \cup {"missing"}
    IN {NotAnArray} \cup {<<k>> : k \in ks}
         \cup UNION {{<<k1, k2>> : k2 \in ks} : k1 \in StoredNoteKeys}

\* the call op of the note manager ended as result says
FinishNoteList(op, result) ==
  \E r \in {result} :
    /\ Len(r.nts) <= MaxNotes
    /\ notes' = r.nts
    /\ UNCHANGED <<categories, items, version, migrated, now, note, page,
                   listed, tasks, started, heap, source, copy>>
    /\ last' = Called(op, EmptyName, r.err, r.writes)

ListCreateNote(noteData) ==
    FinishNoteList("NoteManager.createNote", NoteManager_createNote(notes, noteData))

ListReorderNotes(noteKeys) ==
    FinishNoteList("NoteManager.reorderNotes", NoteManager_reorderNotes(notes, noteKeys))

ListValidateCategoryReferences ==
    FinishNoteList("NoteManager.validateCategoryReferences",
                   NoteManager_validateCategoryReferences(notes, categories))

NextNoteList ==
    \/ \E noteData \in NoteListCreateInputs : ListCreateNote(noteData)
    \/ \E noteKeys \in NoteListOrderInputs : ListReorderNotes(noteKeys)
    \/ ListValidateCategoryReferences

SpecNoteList == InitNoteList /\ [][NextNoteList]_vars

TypeOK ==
    /\ Len(categories) <= MaxCats
    /\ \A n \in ItemIds : items[n] \in {Absent, NoCategory} \cup KeyPool
    /\ version \in {Undefined, MIGRATION_VERSION}
    /\ Len(notes) <= MaxNotes

----------------------------------------------------------------------------
(* Properties *)

\* two names are equal when letter case is ignored
SameIgnoringCase(a, b) ==
    /\ Len(a) = Len(b)
    /\ \A i \in 1..Len(a) : ToLowerChar(a[i]) = ToLowerChar(b[i])

IsDefault(c) == c.name = NotesName

\* C1: no two persisted categories have names that are equal ignoring case
C1_NamesUniqueIgnoringCase ==
    \A i, j \in DOMAIN categories :
        i # j => ~SameIgnoringCase(categories[i].name, categories[j].name)

\* C2: no step renames or removes a category named "Notes": a category that
\* is stored under that name before a call is stored under the same key and
\* the same name after it
C2_DefaultNeverRenamedOrDeleted ==
    [][\A i \in DOMAIN categories :
          IsDefault(categories[i]) =>
              \E j \in DOMAIN categories' :
                  /\ categories'[j].key = categories[i].key
                  /\ IsDefault(categories'[j])]_vars

\* C3: a delete never removes the last category: once a category is stored,
\* at least one category stays stored
C3_LastCategoryKept ==
    [][Len(categories) >= 1 => Len(categories') >= 1]_vars

C5_AtMostOneDefault ==
    Cardinality({i \in DOMAIN categories : IsDefault(categories[i])}) <= 1

\* a partial that Category.update accepts for the stored category c and that
\* collides with no other category
ValidPartial(c, updates) ==
    /\ validate(mergeObject(c, updates)) = "none"
    /\ "name" \in DOMAIN updates =>
           /\ ~(IsDefault(c) /\ updates.name # NotesName)
           /\ \A i \in DOMAIN categories :
                  categories[i].key # c.key
                      => ~SameIgnoringCase(categories[i].name, updates.name)

\* C6: CategoryManager.update on a stored key with a valid partial that
\* collides with nothing persists the category with the partial's values,
\* returns it with those values, and keeps its key and the number of
\* categories
C6_ManagerUpdateApplies ==
    [][\A key \in StoredKeys, updates \in ManagerUpdateInputs :
          (/\ CallCategoryManagerUpdate(key, updates)
           /\ ValidPartial(categories[findIndex(categories, key)], updates)) =>
              LET i == findIndex(categories, key)
                  returned == CategoryManager_update(categories, items, version,
                                                     key, updates).ret
              IN /\ last'.err = "none"
                 /\ Len(categories') = Len(categories)
                 /\ categories'[i].key = key
                 /\ \A f \in DOMAIN updates :
                        categories'[i][f] = updates[f] /\ returned[f] = updates[f]]_vars

\* C7: CategoryManager.create with a name that equals the name of a stored
\* category when case is ignored fails with the duplicate-name error and
\* stores nothing
C7_CreateRejectsCaseVariant ==
    [][(/\ last'.op = "CategoryManager.create"
        /\ \E i \in DOMAIN categories :
               SameIgnoringCase(categories[i].name, last'.arg)) =>
          /\ last'.err = "DuplicateName"
          /\ categories' = categories]_vars

\* a create was refused for a name that is stored in another letter case
C7_Witness ==
    /\ last.op = "CategoryManager.create"
    /\ last.err = "DuplicateName"
    /\ \E i \in DOMAIN categories :
          /\ categories[i].name # last.arg
          /\ SameIgnoringCase(categories[i].name, last.arg)

\* C8: a manager call that fails with a validation, duplicate-name,
\* not-found or argument error has written nothing: categories, note items,
\* notes and version are what they were before the call
C8_FailedCallWritesNothing ==
    [][last'.err \in {"Validation", "DuplicateName", "NotFound", "Argument"} =>
          /\ last'.writes = 0
          /\ UNCHANGED <<categories, items, notes, version>>]_vars

\* an updateNote with an invalid update failed on an actor that holds notes
\* and categories
C8_Witness ==
    /\ last.op = "NoteManager.updateNote"
    /\ last.err = "Validation"
    /\ notes # << >>
    /\ categories # << >>

\* what C9 promises of a runMigrations step
MigrationCreatesDefault ==
    LET uncategorized == uncategorizedNotes(items)
    IN /\ categories' # << >>
       /\ categories'[1].name = NotesName
       /\ \A n \in ItemIds :
              IF n \in uncategorized THEN items'[n] = categories'[1].key
              ELSE items'[n] = items[n]
       /\ version' = MIGRATION_VERSION

\* runMigrations is called with no category named "Notes" and some
\* uncategorized note
MigrationHasWork ==
    /\ CallRunMigrations
    /\ \A i \in DOMAIN categories : ~IsDefault(categories[i])
    /\ uncategorizedNotes(items) # {}

\* C9 as stated: runMigrations on a parent with no category named "Notes"
\* and an uncategorized note ends with "Notes" at the head of the list, the
\* uncategorized notes referencing it, the other notes unchanged and the
\* latest version stored
C9_MigrationCreatesDefault ==
    [][MigrationHasWork => MigrationCreatesDefault]_vars

\* C9 amended: the same, for a parent whose stored version is unset or
\* below the latest version
C9_MigrationCreatesDefaultWhenDue ==
    [][(MigrationHasWork /\ (version = Undefined \/ version < MIGRATION_VERSION))
          => MigrationCreatesDefault]_vars

\* a migration created the default category at the head, moved a note into
\* it and left another note in its own category
C9_Witness ==
    /\ last.op = "runMigrations"
    /\ last.writes >= 3
    /\ version = MIGRATION_VERSION
    /\ Len(categories) >= 2
    /\ IsDefault(categories[1])
    /\ \E n \in ItemIds : items[n] = categories[1].key
    /\ \E n \in ItemIds : items[n] \in StoredKeys \ {categories[1].key}

\* C10: once runMigrations has returned for the actor, a later runMigrations
\* writes nothing and leaves categories, notes and version unchanged
C10_RerunIsNoOp ==
    [][(migrated /\ CallRunMigrations) =>
          /\ last'.writes = 0
          /\ UNCHANGED <<categories, items, notes, version>>]_vars

\* a later runMigrations returned without a write although an uncategorized
\* note and no category named "Notes" were there
C10_Witness ==
    /\ migrated
    /\ last.op = "runMigrations"
    /\ last.writes = 0
    /\ uncategorizedNotes(items) # {}
    /\ categories # << >>
    /\ \A i \in DOMAIN categories : ~IsDefault(categories[i])

\* C11: the stored version never decreases (a stored version stays stored
\* and does not get smaller), and when runMigrations has returned without
\* error the stored version is at least MIGRATION_VERSION
C11_VersionMonotonic ==
    [][/\ version # Undefined => (version' # Undefined /\ version' >= version)
       /\ (last'.op = "runMigrations" /\ last'.err = "none")
             => (version' # Undefined /\ version' >= MIGRATION_VERSION)]_vars

\* runMigrations ran its upgrade procedure on an actor with notes and stored
\* the version, and other calls followed
C11_Witness ==
    /\ migrated
    /\ version = MIGRATION_VERSION
    /\ last.op # "runMigrations"
    /\ categories # << >>
    /\ hasAnyNotes(items)

\* C12: runMigrations on a brand-new actor (version never set, no notes, no
\* categories) stores the latest version with one write, creates no
\* category, changes no note and invokes no upgrade procedure
C12_BrandNewOnlyStamped ==
    [][(/\ last'.op = "runMigrations"
        /\ CallRunMigrations
        /\ version = Undefined
        /\ ~hasAnyNotes(items)
        /\ categories = << >>) =>
           /\ version' = MIGRATION_VERSION
           /\ last'.writes = 1
           /\ migrationsInvoked(categories, items, version) = {}
           /\ UNCHANGED <<categories, items, notes>>]_vars

\* the first call on the actor was runMigrations: one write, nothing stored
\* but the version
C12_Witness ==
    /\ last.op = "runMigrations"
    /\ last.writes = 1
    /\ version = MIGRATION_VERSION
    /\ categories = << >>
    /\ ~hasAnyNotes(items)

\* ensureDefault has something to do: no category named "Notes" and some
\* uncategorized note
DefaultNeeded ==
    /\ \A i \in DOMAIN categories : ~IsDefault(categories[i])
    /\ uncategorizedNotes(items) # {}

\* C13: ensureDefault prepends and persists a category named "Notes" exactly
\* when none exists and some note is uncategorized, writes nothing in every
\* other state, and a second call right after it changes and writes nothing
C13_EnsureDefaultIdempotent ==
    [][(last'.op = "Category.ensureDefault" /\ CallEnsureDefault) =>
          /\ IF DefaultNeeded
             THEN /\ last'.writes = 1
                  /\ Len(categories') = Len(categories) + 1
                  /\ IsDefault(categories'[1])
                  /\ Tail(categories') = categories
             ELSE /\ last'.writes = 0
                  /\ categories' = categories
          /\ UNCHANGED <<items, notes, version,
                         listed, tasks, started, heap, source, copy>>
          /\ LET again == Category_ensureDefault(categories', items', version')
             IN /\ again.writes = 0
                /\ again.cats = categories'
                /\ again.its = items'
                /\ again.ver = version']_vars

\* ensureDefault put "Notes" in front of a stored category
C13_Witness ==
    /\ last.op = "Category.ensureDefault"
    /\ last.writes = 1
    /\ Len(categories) >= 2
    /\ IsDefault(categories[1])
    /\ uncategorizedNotes(items) # {}

----------------------------------------------------------------------------
(* One Note instance and one journal page: construction, update, export to  *)
(* a page and import from a page, while the clock advances.                 *)

\* the clock runs from 0 to MaxTime
MaxTime == 1

\* the namespace of another module's flags
OTHER_MODULE == "other-module"

UntitledName == <<85, 110, 116, 105, 116, 108, 101, 100>>  \* "Untitled"

\* identifiers of journal pages
PageUuids == <<"p1", "p2", "p3">>

\* the note instances that exist
Existing == IF note = NoNote THEN << >> ELSE <<note>>

\* the identifier of a newly created page: the first one that neither the
\* current page nor the note's back-reference holds
newPageUuid ==
    LET held == {page.uuid} \cup
                {note.flags[ns].sourcePageUuid :
                    ns \in {m \in (IF note = NoNote THEN {} ELSE DOMAIN note.flags) :
                               "sourcePageUuid" \in DOMAIN note.flags[m]}}
        free == {i \in DOMAIN PageUuids : PageUuids[i] \notin held}
    IN PageUuids[CHOOSE i \in free : \A j \in free : i <= j]

\* the text of a note or page: content and format, markdown when defined
textOf(t) ==
    IF "markdown" \in DOMAIN t
    THEN [content |-> t.content, format |-> t.format, markdown |-> t.markdown]
    ELSE [content |-> t.content, format |-> t.format]

\* Note.toJournalEntryPage: the data of the page created in the journal
toJournalEntryPage(n, uuid) ==
    [uuid |-> uuid, name |-> n.name, sort |-> n.sort, text |-> textOf(n.text),
     flags |-> n.flags]

\* Note.fromJournalEntryPage: defaults for a missing name, sort and format,
\* the page's flags merged over the fresh category and back-reference
fromJournalEntryPage(pg) ==
    LET noteData ==
          [key |-> noteRandomID(Existing),
           name |-> IF pg.name = EmptyName THEN UntitledName ELSE pg.name,
           sort |-> IF pg.sort = 0 THEN DefaultSort ELSE pg.sort,
           text |-> textOf([pg.text EXCEPT
                              !.format = IF pg.text.format = 0 THEN FORMAT_HTML
                                         ELSE pg.text.format]),
           flags |-> mergeFlags((MODULE_ID :> [category |-> "null",
                                               sourcePageUuid |-> pg.uuid]),
                                pg.flags),
           _stats |-> [createdTime |-> now, modifiedTime |-> now,
                       lastModifiedBy |-> CurrentUser]]
    IN ConstructNote(Existing, noteData)

\* data given to new Note: a name, a name with markdown text, no name
NoteDataInputs ==
    {[name |-> QuestName],
     [name |-> QuestName,
      text |-> [content |-> "c", format |-> FORMAT_MARKDOWN, markdown |-> "md"]],
     [name |-> EmptyName]}

\* partials given to Note.update: a name, a format, a key, stats fields, an
\* empty name
NotePartialInputs ==
    {[name |-> LoreName],
     [text |-> [format |-> FORMAT_HTML]],
     [key |-> "other"],
     [_stats |-> [createdTime |-> 0]],
     [_stats |-> [modifiedTime |-> 0, lastModifiedBy |-> "other"]],
     [name |-> EmptyName]}

\* pages made outside this module: with no flags, and with another module's
\* flags and neither name nor sort
PageDataInputs ==
    {[name |-> QuestName, sort |-> 1,
      text |-> [content |-> "c", format |-> FORMAT_HTML],
      flags |-> << >>],
     [name |-> EmptyName, sort |-> 0,
      text |-> [content |-> "", format |-> FORMAT_MARKDOWN, markdown |-> "md"],
      flags |-> (OTHER_MODULE :> [x |-> 1])]}

InitNote ==
    /\ now = 0
    /\ note = NoNote
    /\ page = NoPage
    /\ categories = << >>
    /\ items = [n \in ItemIds |-> Absent]
    /\ notes = << >>
    /\ version = Undefined
    /\ migrated = FALSE
    /\ last = Called("init", EmptyName, "none", 0)
    /\ listed = NoRet
    /\ tasks = NoTasks
    /\ started = 0
    /\ heap = EmptyHeap
    /\ source = NoNote
    /\ copy = NoNote

\* new Note(data): a constructor that throws leaves no instance
NewNote(data) ==
  \E c \in {ConstructNote(Existing, data)} :
    /\ note' = IF c.err = "none" THEN c.inst ELSE note
    /\ last' = Called("new Note", EmptyName, c.err, 0)
    /\ UNCHANGED <<categories, items, notes, version, migrated, now, page,
                   listed, tasks, started, heap, source, copy>>

\* note.update(updates): the fields are assigned before validate may throw
UpdateNote(updates) ==
  /\ note # NoNote
  /\ \E u \in {Note_update(note, updates)} :
       /\ note' = u.inst
       /\ last' = Called("Note.update", EmptyName, u.err, 0)
  /\ UNCHANGED <<categories, items, notes, version, migrated, now, page,
                 listed, tasks, started, heap, source, copy>>

\* note.toJournalEntryPage(journal) on a valid note
ExportNote ==
  /\ note # NoNote
  /\ noteValidate(note) = "none"
  /\ page' = toJournalEntryPage(note, newPageUuid)
  /\ last' = Called("Note.toJournalEntryPage", EmptyName, "none", 0)
  /\ UNCHANGED <<categories, items, notes, version, migrated, now, note,
                 listed, tasks, started, heap, source, copy>>

\* Note.fromJournalEntryPage(page)
ImportPage ==
  /\ page # NoPage
  /\ \E c \in {fromJournalEntryPage(page)} :
       /\ note' = IF c.err = "none" THEN c.inst ELSE note
       /\ last' = Called("Note.fromJournalEntryPage", EmptyName, c.err, 0)
  /\ UNCHANGED <<categories, items, notes, version, migrated, now, page,
                 listed, tasks, started, heap, source, copy>>

\* a page is created in a journal outside this module
CreatePage(pageData) ==
  /\ page' = mergeObject([uuid |-> newPageUuid], pageData)
  /\ last' = Called("JournalEntryPage.create", EmptyName, "none", 0)
  /\ UNCHANGED <<categories, items, notes, version, migrated, now, note,
                 listed, tasks, started, heap, source, copy>>

\* Date.now() advances
Tick ==
  /\ now < MaxTime
  /\ now' = now + 1
  /\ UNCHANGED <<categories, items, notes, version, migrated, note, page, last,
                 listed, tasks, started, heap, source, copy>>

NextNote ==
    \/ \E data \in NoteDataInputs : NewNote(data)
    \/ \E updates \in NotePartialInputs : UpdateNote(updates)
    \/ ExportNote
    \/ ImportPage
    \/ \E pageData \in PageDataInputs : CreatePage(pageData)
    \/ Tick

SpecNote == InitNote /\ [][NextNote]_vars

----------------------------------------------------------------------------
(* Two Note instances whose nested objects (text, flags, each namespace of  *)
(* the flags, _stats) are held by address, so that an object reached from   *)
(* both instances is one object: new Note, clone and update as they create, *)
(* copy and change objects in place.                                        *)

\* the namespaces a flags object can hold, in the order they are visited
Namespaces == <<MODULE_ID, OTHER_MODULE>>

\* the first address that holds no object
alloc(h) == CHOOSE a \in Addrs : h[a] = Free /\ \A b \in Addrs : h[b] = Free => a <= b

\* a new object with the given fields
putCell(h, c) == [h |-> [h EXCEPT ![alloc(h)] = c], at |-> alloc(h)]

\* new objects for the namespaces of a flags literal, from the i-th on, and
\* the fields of the flags object that refers to them
RECURSIVE putNamespaces(_, _, _)
putNamespaces(h, fl, i) ==
    IF i > Len(Namespaces) THEN [h |-> h, obj |-> << >>]
    ELSE IF Namespaces[i] \notin DOMAIN fl THEN putNamespaces(h, fl, i + 1)
    ELSE LET one == putCell(h, fl[Namespaces[i]])
             rest == putNamespaces(one.h, fl, i + 1)
         IN [h |-> rest.h, obj |-> (Namespaces[i] :> one.at) @@ rest.obj]

\* an object literal written by a caller: its nested objects are new objects
fromLiteral(h, data) ==
    LET t == IF "text" \in DOMAIN data THEN putCell(h, data.text) ELSE [h |-> h, at |-> 0]
        n == IF "flags" \in DOMAIN data THEN putNamespaces(t.h, data.flags, 1)
             ELSE [h |-> t.h, obj |-> << >>]
        f == IF "flags" \in DOMAIN data THEN putCell(n.h, n.obj) ELSE [h |-> n.h, at |-> 0]
        st == IF "_stats" \in DOMAIN data THEN putCell(f.h, data._stats)
              ELSE [h |-> f.h, at |-> 0]
    IN [h |-> st.h,
        obj |-> [k \in DOMAIN data |->
                   IF k = "text" THEN t.at
                   ELSE IF k = "flags" THEN f.at
                   ELSE IF k = "_stats" THEN st.at
                   ELSE data[k]]]

\* mergeObject into an object of values: its fields are overwritten in place
mergeLeaf(h, a, b) == [h EXCEPT ![a] = mergeObject(h[a], h[b])]

\* an insertion that stores the object it was given, not a copy of it
mergeInsert_byReference(h, b) == [h |-> h, at |-> b]

\* mergeObject inserting a key whose value is a plain object: the value
\* stored is a new object with the same fields
mergeInsert(h, b) == putCell(h, h[b])

\* mergeObject on two flags objects: a namespace of both is merged in place,
\* a namespace of other alone is inserted
RECURSIVE mergeFlagsAt(_, _, _, _)
mergeFlagsAt(h, fa, fb, i) ==
    IF i > Len(Namespaces) THEN h
    ELSE LET ns == Namespaces[i]
         IN IF ns \notin DOMAIN h[fb] THEN mergeFlagsAt(h, fa, fb, i + 1)
            ELSE IF ns \in DOMAIN h[fa]
                 THEN mergeFlagsAt(mergeLeaf(h, h[fa][ns], h[fb][ns]), fa, fb, i + 1)
            ELSE LET ins == mergeInsert(h, h[fb][ns])
                 IN mergeFlagsAt([ins.h EXCEPT ![fa] = (ns :> ins.at) @@ ins.h[fa]],
                                 fa, fb, i + 1)

\* mergeObject(original, other) on note data: values are overwritten, nested
\* objects of both are merged in place, a nested object of other alone is
\* inserted
mergeDataAt(h, orig, other) ==
    LET h1 == IF "text" \in DOMAIN other /\ "text" \in DOMAIN orig
              THEN mergeLeaf(h, orig.text, other.text) ELSE h
        h2 == IF "flags" \in DOMAIN other /\ "flags" \in DOMAIN orig
              THEN mergeFlagsAt(h1, orig.flags, other.flags, 1) ELSE h1
        h3 == IF "_stats" \in DOMAIN other /\ "_stats" \in DOMAIN orig
              THEN mergeLeaf(h2, orig._stats, other._stats) ELSE h2
        ins == IF "_stats" \in DOMAIN other /\ "_stats" \notin DOMAIN orig
               THEN mergeInsert(h3, other._stats) ELSE [h |-> h3, at |-> 0]
    IN [h |-> ins.h,
        obj |-> [k \in (DOMAIN orig) \cup (DOMAIN other) |->
                   IF k \in DOMAIN orig /\ k \in {"text", "flags", "_stats"} THEN orig[k]
                   ELSE IF k = "_stats" THEN ins.at
                   ELSE IF k \in DOMAIN other THEN other[k]
                   ELSE orig[k]]]

\* the fields of an instance and of its nested objects, by value
view(h, n) ==
    [key |-> n.key, name |-> n.name, sort |-> n.sort,
     text |-> h[n.text],
     flags |-> [ns \in DOMAIN h[n.flags] |-> h[h[n.flags][ns]]],
     _stats |-> h[n._stats]]

\* new Note(data) for data held by address: the defaults are new objects,
\* the data is merged into them
NoteAt(h, data, freshKey) ==
    LET t == putCell(h, [content |-> "", format |-> FORMAT_HTML])
        ns == putCell(t.h, [category |-> "null"])
        f == putCell(ns.h, (MODULE_ID :> ns.at))
        st == putCell(f.h, [createdTime |-> now, modifiedTime |-> now,
                            lastModifiedBy |-> CurrentUser])
        defaults == [key |-> freshKey, name |-> NewNoteName, sort |-> DefaultSort,
                     text |-> t.at, flags |-> f.at, _stats |-> st.at]
        noteData == mergeDataAt(st.h, defaults, data)
        inst == [key |-> noteData.obj.key, name |-> noteData.obj.name,
                 sort |-> noteData.obj.sort, text |-> noteData.obj.text,
                 flags |-> noteData.obj.flags, _stats |-> noteData.obj._stats]
    IN [h |-> noteData.h, inst |-> inst, err |-> noteValidate(view(noteData.h, inst))]

\* Note.toObject: a new text object; flags and _stats are the instance's own
toObjectAt(h, n) ==
    LET t == putCell(h, textOf(h[n.text]))
    IN [h |-> t.h,
        obj |-> [key |-> n.key, name |-> n.name, sort |-> n.sort,
                 text |-> t.at, flags |-> n.flags, _stats |-> n._stats]]

\* Note.clone: toObject, a new key, new _stats, new Note
cloneAt(h, n, freshKey) ==
    LET data == toObjectAt(h, n)
        st == putCell(data.h, [createdTime |-> now, modifiedTime |-> now,
                               lastModifiedBy |-> CurrentUser])
    IN NoteAt(st.h, [data.obj EXCEPT !.key = freshKey, !._stats = st.at], freshKey)

\* Note.update for updates held by address
updateAt(h, n, updates) ==
    LET stamp == putCell(h, [modifiedTime |-> now, lastModifiedBy |-> CurrentUser])
        updateData == mergeDataAt(stamp.h, updates, [_stats |-> stamp.at])
        currentData == toObjectAt(updateData.h, n)
        mergedData == mergeDataAt(currentData.h, currentData.obj, updateData.obj)
        inst == [n EXCEPT !.name = mergedData.obj.name, !.sort = mergedData.obj.sort,
                          !.text = mergedData.obj.text, !.flags = mergedData.obj.flags,
                          !._stats = mergedData.obj._stats]
    IN [h |-> mergedData.h, inst |-> inst, err |-> noteValidate(view(mergedData.h, inst))]

\* the addresses an instance refers to, in a fixed order
cellsOf(h, n) ==
    IF n = NoNote THEN << >>
    ELSE <<n.text, n.flags>>
           \o SelectSeq([i \in DOMAIN Namespaces |->
                            IF Namespaces[i] \in DOMAIN h[n.flags]
                            THEN h[n.flags][Namespaces[i]] ELSE 0],
                        LAMBDA a : a # 0)
           \o <<n._stats>>

\* a sequence of addresses without the repetitions of an address
RECURSIVE withoutRepetition(_)
withoutRepetition(q) ==
    IF q = << >> THEN << >>
    ELSE LET front == withoutRepetition(SubSeq(q, 1, Len(q) - 1))
         IN IF \E i \in DOMAIN front : front[i] = q[Len(q)] THEN front
            ELSE Append(front, q[Len(q)])

\* the objects that the two instances refer to, moved to the first
\* addresses in the order the instances reach them; the objects no instance
\* refers to are dropped.  Addresses are names only: which address an
\* object has is not observable, which objects are one object is kept.
collect(h, src, cpy) ==
    LET live == withoutRepetition(cellsOf(h, src) \o cellsOf(h, cpy))
        to(a) == CHOOSE i \in DOMAIN live : live[i] = a
        isFlags(a) == \E n \in {src, cpy} \ {NoNote} : n.flags = a
        moved(n) == IF n = NoNote THEN NoNote
                    ELSE [n EXCEPT !.text = to(n.text), !.flags = to(n.flags),
                                   !._stats = to(n._stats)]
    IN [h |-> [a \in Addrs |->
                 IF a > Len(live) THEN Free
                 ELSE IF isFlags(live[a])
                      THEN [ns \in DOMAIN h[live[a]] |-> to(h[live[a]][ns])]
                 ELSE h[live[a]]],
        source |-> moved(src), copy |-> moved(cpy)]

\* data given to new Note: a name, and a name with markdown text and flags
\* of another module
CloneDataInputs ==
    {[name |-> QuestName],
     [name |-> QuestName,
      text |-> [content |-> "c", format |-> FORMAT_MARKDOWN, markdown |-> "md"],
      flags |-> (OTHER_MODULE :> [x |-> 1])]}

\* partials given to update: a name, text, a category, flags of another
\* module
ClonePartialInputs ==
    {[name |-> LoreName],
     [text |-> [content |-> "d"]],
     [flags |-> (MODULE_ID :> [category |-> "k1"])],
     [flags |-> (OTHER_MODULE :> [x |-> 2])]}

\* the record of a call on an instance
CalledOnNote(op, err) == Called(op, EmptyName, err, 0)

\* source = new Note(data)
NewSource(data) ==
  /\ source = NoNote
  /\ \E lit \in {fromLiteral(heap, data)} :
      \E c \in {NoteAt(lit.h, lit.obj, noteRandomID(<<copy>>))} :
      \E kept \in {collect(c.h, c.inst, copy)} :
        /\ source' = kept.source
        /\ copy' = kept.copy
        /\ heap' = kept.h
        /\ last' = CalledOnNote("new Note", c.err)
  /\ UNCHANGED <<categories, items, notes, version, migrated, now, note, page,
                 listed, tasks, started>>

\* copy = source.clone()
CloneSource ==
  /\ source # NoNote
  /\ \E c \in {cloneAt(heap, source, noteRandomID(<<source>>))} :
     \E kept \in {collect(c.h, source, c.inst)} :
        /\ source' = kept.source
        /\ copy' = kept.copy
        /\ heap' = kept.h
        /\ last' = CalledOnNote("Note.clone", c.err)
  /\ UNCHANGED <<categories, items, notes, version, migrated, now, note, page,
                 listed, tasks, started>>

\* source.update(updates)
UpdateSource(updates) ==
  /\ source # NoNote
  /\ \E lit \in {fromLiteral(heap, updates)} :
      \E u \in {updateAt(lit.h, source, lit.obj)} :
      \E kept \in {collect(u.h, u.inst, copy)} :
        /\ source' = kept.source
        /\ copy' = kept.copy
        /\ heap' = kept.h
        /\ last' = CalledOnNote("source.update", u.err)
  /\ UNCHANGED <<categories, items, notes, version, migrated, now, note, page,
                 listed, tasks, started>>

\* copy.update(updates)
UpdateCopy(updates) ==
  /\ copy # NoNote
  /\ \E lit \in {fromLiteral(heap, updates)} :
      \E u \in {updateAt(lit.h, copy, lit.obj)} :
      \E kept \in {collect(u.h, source, u.inst)} :
        /\ source' = kept.source
        /\ copy' = kept.copy
        /\ heap' = kept.h
        /\ last' = CalledOnNote("copy.update", u.err)
  /\ UNCHANGED <<categories, items, notes, version, migrated, now, note, page,
                 listed, tasks, started>>

NextClone ==
    \/ \E data \in CloneDataInputs : NewSource(data)
    \/ CloneSource
    \/ \E updates \in ClonePartialInputs : UpdateSource(updates)
    \/ \E updates \in ClonePartialInputs : UpdateCopy(updates)
    \/ Tick

SpecClone == InitNote /\ [][NextClone]_vars

----------------------------------------------------------------------------
(* Invocations in progress at once.  The host runs one invocation at a time *)
(* and switches only where an invocation awaits a persistence call; a step  *)
(* of the model is the part of an invocation from one await to the next:    *)
(* the write it was waiting for lands, and the code runs on to the next     *)
(* await, reading what is persisted at that moment.  tasks[t] holds the     *)
(* position of invocation t and its local variables.                        *)

\* a slot that holds no invocation in progress
Available(t) == tasks[t].pc \in {"idle", "done", "interrupted"}
InProgress(t) == ~Available(t)

\* keys held in the local variables of the invocations
HeldKeys ==
    UNION {{tasks[t].key, tasks[t].target}
             \cup {tasks[t].local[i].key : i \in DOMAIN tasks[t].local} : t \in TaskIds}

\* foundry.utils.randomID in an invocation: an identifier no other one holds
HasFreshTaskKey == KeyPool \ (UsedKeys \cup HeldKeys) # {}
taskRandomID ==
    LET free == {i \in 1..NumKeys : KeyNames[i] \notin (UsedKeys \cup HeldKeys)}
    IN KeyNames[CHOOSE i \in free : \A j \in free : i <= j]

\* the first note of ids in the order of actor.items
firstNote(ids) == CHOOSE n \in ids : \A m \in ids : n <= m

\* what a step leaves: the invocation's record and the persisted data
Stepped(task, cats, its, ver) == [task |-> task, cats |-> cats, its |-> its, ver |-> ver]

\* CategoryManager.delete up to its first await
CategoryManager_delete_begin(cats, its, categoryKey) ==
    LET filteredCategories == filterOut(cats, categoryKey)
        notesInCat == notesInCategory(its, categoryKey)
    IN [Idle EXCEPT !.op = "CategoryManager.delete",
                    !.pc = IF notesInCat # {} THEN "cascade" ELSE "write",
                    !.key = categoryKey, !.local = filteredCategories,
                    !.ids = notesInCat, !.refs = notesInCat]

\* a delete that persists the filtered list before it clears the notes
CategoryManager_delete_resume_recordFirst(task, cats, its, ver) ==
    IF task.pc = "cascade"
    THEN Stepped([task EXCEPT !.pc = "write"], task.local, its, ver)
    ELSE Stepped(Idle, cats, setCategory(its, task.ids, NoCategory), ver)

\* CategoryManager.delete from one await to the next
CategoryManager_delete_resume(task, cats, its, ver) ==
    IF task.pc = "cascade"
    THEN \* updateEmbeddedDocuments has landed; setFlag is issued
         Stepped([task EXCEPT !.pc = "write", !.ids = {}],
                 cats, setCategory(its, task.ids, NoCategory), ver)
    ELSE \* setFlag(filteredCategories) has landed
         Stepped(Idle, task.local, its, ver)

\* category.delete() up to its first await
Category_delete_begin(cats, its, key) ==
    LET filtered == filterOut(cats, key)
        notes_ == notesInCategory(its, key)
    IN [Idle EXCEPT !.op = "Category.delete",
                    !.pc = IF notes_ # {} THEN "notes" ELSE "write",
                    !.key = key, !.local = filtered,
                    !.ids = notes_, !.refs = notes_]

\* category.delete() from one await to the next
Category_delete_resume(task, cats, its, ver) ==
    IF task.pc = "notes"
    THEN \* note.update({'system.category': ''}) has landed for one note
         LET n == firstNote(task.ids)
             rest == task.ids \ {n}
         IN Stepped([task EXCEPT !.pc = IF rest = {} THEN "write" ELSE "notes",
                                 !.ids = rest],
                    cats, setCategory(its, {n}, NoCategory), ver)
    ELSE Stepped(Idle, task.local, its, ver)

\* whether Category.ensureDefault has a category to add
needsDefault(cats, its) ==
    /\ ~\E i \in DOMAIN cats : cats[i].name = NotesName
    /\ uncategorizedNotes(its) # {}

\* the list Category.ensureDefault and migrateToV1 build: the default first
withDefault(cats, key) ==
    <<[key |-> key, name |-> NotesName, ordering |-> 0, collapsed |-> FALSE]>> \o cats

\* Category.ensureDefault up to its await (called only where needsDefault)
Category_ensureDefault_begin(cats, its, freshKey) ==
    [Idle EXCEPT !.op = "Category.ensureDefault", !.pc = "write",
                 !.key = freshKey, !.local = withDefault(cats, freshKey)]

\* a write that adds the default category to the list persisted by then
Category_ensureDefault_resume_addToStored(task, cats, its, ver) ==
    Stepped(Idle, <<task.local[1]>> \o cats, its, ver)

\* Category.ensureDefault after its await: setFlag(categories) has landed
Category_ensureDefault_resume(task, cats, its, ver) ==
    Stepped(Idle, task.local, its, ver)

\* runMigrations up to its first await (called only where it has work)
runMigrations_begin(cats, its, ver, freshKey) ==
    LET brandNew == ver = Undefined /\ Len(cats) = 0 /\ ~hasAnyNotes(its)
    IN IF ~brandNew /\ needsDefault(cats, its)
       THEN \* migrateToV1 awaits setFlag(categories)
            [Idle EXCEPT !.op = "runMigrations", !.pc = "v1write", !.key = freshKey,
                         !.local = withDefault(cats, freshKey),
                         !.ids = uncategorizedNotes(its)]
       ELSE \* only the version is left to write
            [Idle EXCEPT !.op = "runMigrations", !.pc = "stamp"]

\* runMigrations from one await to the next
runMigrations_resume(task, cats, its, ver) ==
    IF task.pc = "v1write"
    THEN \* the list with the default category has landed; the first note is updated
         Stepped([task EXCEPT !.pc = "v1notes"], task.local, its, ver)
    ELSE IF task.pc = "v1notes"
    THEN \* note.update({'system.category': defaultCategory.key}) has landed
         LET n == firstNote(task.ids)
             rest == task.ids \ {n}
         IN Stepped([task EXCEPT !.pc = IF rest = {} THEN "stamp" ELSE "v1notes",
                                 !.ids = rest],
                    cats, setCategory(its, {n} \cap {m \in ItemIds : its[m] # Absent},
                                      task.key), ver)
    ELSE \* setFlag(MODULE_ID, 'version', MIGRATION_VERSION) has landed
         Stepped(Idle, cats, its, MIGRATION_VERSION)

\* handleNoteDrop up to its first await: the note n dropped on the section
\* of the category targetCategoryId
handleNoteDrop_begin(n, targetCategoryId) ==
    [Idle EXCEPT !.op = "handleNoteDrop", !.pc = "lookup",
                 !.n = n, !.key = targetCategoryId]

\* handleNoteDrop from one await to the next
handleNoteDrop_resume(task, cats, its, ver, freshKey) ==
    IF task.pc = "lookup"
    THEN \* fromUuid has answered; ensureDefaultCategory is awaited
         IF needsDefault(cats, its)
         THEN Stepped([task EXCEPT !.pc = "ensure",
                                   !.local = withDefault(cats, freshKey)],
                      cats, its, ver)
         ELSE Stepped([task EXCEPT !.pc = "ensured"], cats, its, ver)
    ELSE IF task.pc \in {"ensure", "ensured"}
    THEN LET categories_ == IF task.pc = "ensure" THEN task.local ELSE cats
             isDefault == \E i \in DOMAIN categories_ :
                             /\ categories_[i].key = task.key
                             /\ \A j \in 1..(i - 1) : categories_[j].key # task.key
                             /\ categories_[i].name = NotesName
             targetCategory == IF isDefault THEN NoCategory ELSE task.key
             currentCategory == its[task.n]
         IN IF currentCategory = targetCategory
            THEN Stepped(Idle, categories_, its, ver)
            ELSE Stepped([task EXCEPT !.pc = "move", !.local = <<>>,
                                      !.target = targetCategory],
                         categories_, its, ver)
    ELSE \* item.update({'system.category': targetCategory}) has landed
         Stepped(Idle, cats, setCategory(its, {task.n}, task.target), ver)

\* the actors the invocations start on: no category or one, notes that are
\* uncategorized or in it, nothing migrated yet
AsyncCategoryInputs ==
    {<<>>, <<[key |-> KeyNames[1], name |-> CombatName, ordering |-> 0,
              collapsed |-> FALSE]>>}

InitAsync ==
    /\ categories \in AsyncCategoryInputs
    /\ items \in {its \in [ItemIds -> {Absent, NoCategory, KeyNames[1]}] :
                    \A n \in ItemIds :
                       its[n] = KeyNames[1] => Len(categories) > 0}
    /\ version = Undefined
    /\ migrated = FALSE
    /\ notes = <<>>
    /\ now = 0
    /\ note = NoNote
    /\ page = NoPage
    /\ last = Called("init", EmptyName, "none", 0)
    /\ listed = NoRet
    /\ tasks = NoTasks
    /\ started = 0
    /\ heap = EmptyHeap
    /\ source = NoNote
    /\ copy = NoNote

\* a step of invocation t leaves r
Leaves(t, r) ==
    /\ tasks' = [tasks EXCEPT ![t] = r.task]
    /\ started' = IF Available(t) THEN started + 1 ELSE started
    /\ started' <= MaxCalls
    /\ categories' = r.cats
    /\ items' = r.its
    /\ version' = r.ver
    /\ migrated' = (migrated \/ (r.ver # version))
    /\ UNCHANGED <<notes, now, note, page, last, listed, heap, source, copy>>

\* the delete button of a category: CategoryManager.delete(actor, categoryId)
BeginManagerDelete(t, categoryKey) ==
    /\ Available(t)
    /\ categoryKey \in StoredKeys
    /\ Leaves(t, Stepped(CategoryManager_delete_begin(categories, items, categoryKey),
                         categories, items, version))

ResumeManagerDelete(t) ==
    /\ InProgress(t)
    /\ tasks[t].op = "CategoryManager.delete"
    /\ Leaves(t, CategoryManager_delete_resume(tasks[t], categories, items, version))

\* category.delete() on an instance loaded from the actor
BeginCategoryDelete(t, key) ==
    /\ Available(t)
    /\ \E i \in DOMAIN categories :
          categories[i].key = key /\ categories[i].name # NotesName
    /\ Leaves(t, Stepped(Category_delete_begin(categories, items, key),
                         categories, items, version))

ResumeCategoryDelete(t) ==
    /\ InProgress(t)
    /\ tasks[t].op = "Category.delete"
    /\ Leaves(t, Category_delete_resume(tasks[t], categories, items, version))

\* CategoryManager.ensureDefaultCategory(actor), as getNotesTabData calls it
BeginEnsureDefault(t) ==
    /\ Available(t)
    /\ needsDefault(categories, items)
    /\ HasFreshTaskKey
    /\ Leaves(t, Stepped(Category_ensureDefault_begin(categories, items, taskRandomID),
                         categories, items, version))

ResumeEnsureDefault(t) ==
    /\ InProgress(t)
    /\ tasks[t].op = "Category.ensureDefault"
    /\ Leaves(t, Category_ensureDefault_resume(tasks[t], categories, items, version))

\* history: the notes that interrupted upgrades have left uncategorized, with
\* 'Notes' persisted, at the moment an invocation begins
LeftBehind ==
    {n \in ItemIds :
        /\ items[n] = NoCategory
        /\ \E u \in TaskIds :
              /\ tasks[u].op = "runMigrations"
              /\ tasks[u].pc = "interrupted"
              /\ tasks[u].was = "v1notes"
              /\ n \in tasks[u].ids}

\* CategoryManager.runMigrations(actor), as addNotesContent calls it; refs
\* keeps LeftBehind for the record
BeginRunMigrations(t) ==
    /\ Available(t)
    /\ ~(version # Undefined /\ version >= MIGRATION_VERSION)
    /\ HasFreshTaskKey
    /\ Leaves(t, Stepped([runMigrations_begin(categories, items, version, taskRandomID)
                             EXCEPT !.refs = LeftBehind],
                         categories, items, version))

ResumeRunMigrations(t) ==
    /\ InProgress(t)
    /\ tasks[t].op = "runMigrations"
    /\ Leaves(t, runMigrations_resume(tasks[t], categories, items, version))

\* a note of the actor dropped on the section of a category the sheet shows
BeginNoteDrop(t, n, targetCategoryId) ==
    /\ Available(t)
    /\ items[n] # Absent
    /\ targetCategoryId \in StoredKeys
    /\ Leaves(t, Stepped(handleNoteDrop_begin(n, targetCategoryId),
                         categories, items, version))

ResumeNoteDrop(t) ==
    /\ InProgress(t)
    /\ tasks[t].op = "handleNoteDrop"
    /\ HasFreshTaskKey
    /\ Leaves(t, handleNoteDrop_resume(tasks[t], categories, items, version,
                                       taskRandomID))

\* the record of an invocation that was interrupted: where it was, the notes
\* it had not updated yet and the key it was giving them
Interrupted(task) ==
    [Idle EXCEPT !.op = task.op, !.pc = "interrupted", !.was = task.pc,
                 !.key = task.key, !.ids = task.ids]

\* an invocation that never resumes: the sheet's client goes away or the
\* awaited call rejects, and the write it was waiting for does not land
Interrupt(t) ==
    /\ InProgress(t)
    /\ tasks' = [tasks EXCEPT ![t] = Interrupted(tasks[t])]
    /\ UNCHANGED <<categories, items, notes, version, migrated, now, note, page,
                   last, listed, started, heap, source, copy>>

\* deletions of categories and drops of notes, in progress at once
NextAsync ==
    \/ \E t \in TaskIds, key \in KeyPool : BeginManagerDelete(t, key)
    \/ \E t \in TaskIds : ResumeManagerDelete(t)
    \/ \E t \in TaskIds, key \in KeyPool : BeginCategoryDelete(t, key)
    \/ \E t \in TaskIds : ResumeCategoryDelete(t)
    \/ \E t \in TaskIds, n \in ItemIds, key \in KeyPool : BeginNoteDrop(t, n, key)
    \/ \E t \in TaskIds : ResumeNoteDrop(t)

SpecAsync == InitAsync /\ [][NextAsync]_vars

\* renderings of the sheet in progress at once, some of them interrupted
NextRender ==
    \/ \E t \in TaskIds : BeginEnsureDefault(t)
    \/ \E t \in TaskIds : ResumeEnsureDefault(t)
    \/ \E t \in TaskIds : BeginRunMigrations(t)
    \/ \E t \in TaskIds : ResumeRunMigrations(t)
    \/ \E t \in TaskIds : Interrupt(t)

SpecRender == InitAsync /\ [][NextRender]_vars

----------------------------------------------------------------------------
(* NoteManager.createNote invocations in progress at once.  getFlag hands   *)
(* out either the stored array itself or a copy of it (the host decides);   *)
(* with no stored array each invocation starts from an array of its own.    *)
(* target says which array an invocation holds: "stored" or its "own".      *)

\* what a step of createNote leaves: the invocation's record and the stored list
SteppedNote(task, nts) == [task |-> task, nts |-> nts]

\* NoteManager.createNote up to its await; byReference: getFlag returned the
\* stored array itself
NoteManager_createNote_begin(nts, noteData, freshKey, byReference) ==
    LET holdsStored == byReference /\ Len(nts) > 0
        r == NoteManager_createNote(nts, mergeObject(noteData, [key |-> freshKey]))
    IN [err |-> r.err,
        task |-> [Idle EXCEPT !.op = "NoteManager.createNote", !.pc = "write",
                              !.key = freshKey, !.local = r.nts,
                              !.target = IF holdsStored THEN "stored" ELSE "own"],
        nts |-> IF holdsStored THEN r.nts ELSE nts]

\* a write that adds the new note to the list stored when it lands
NoteManager_createNote_resume_append(task, nts) ==
    SteppedNote([Idle EXCEPT !.op = task.op, !.pc = "done", !.key = task.key,
                             !.target = task.target, !.refs = task.refs],
                IF task.target = "stored" THEN nts
                ELSE Append(nts, task.local[Len(task.local)]))

\* NoteManager.createNote after its await: setFlag(notes) has landed
NoteManager_createNote_resume(task, nts) ==
    SteppedNote([Idle EXCEPT !.op = task.op, !.pc = "done", !.key = task.key,
                             !.target = task.target, !.refs = task.refs],
                IF task.target = "stored" THEN nts ELSE task.local)

\* keys of the notes stored and of those the invocations hold or have made
HeldNoteKeys ==
    {notes[i].key : i \in DOMAIN notes}
        \cup UNION {{tasks[t].key} \cup tasks[t].refs
                       \cup {tasks[t].local[i].key : i \in DOMAIN tasks[t].local} :
                    t \in TaskIds}

\* foundry.utils.randomID in an invocation
taskNoteRandomID ==
    LET free == {i \in DOMAIN NoteKeyNames : NoteKeyNames[i] \notin HeldNoteKeys}
    IN NoteKeyNames[CHOOSE i \in free : \A j \in free : i <= j]

\* history: the notes being created by the invocations in progress
BeingCreated == {tasks[u].key : u \in {v \in TaskIds : InProgress(v)}}

\* the actors createNote is called on: no stored note, or one
InitCreateRace ==
    /\ now = 0
    /\ note = NoNote
    /\ page = NoPage
    /\ categories = <<>>
    /\ items = [n \in ItemIds |-> Absent]
    /\ notes \in {nts \in InitNoteLists : Len(nts) <= 1}
    /\ version = Undefined
    /\ migrated = FALSE
    /\ last = Called("init", EmptyName, "none", 0)
    /\ listed = NoRet
    /\ tasks = NoTasks
    /\ started = 0
    /\ heap = EmptyHeap
    /\ source = NoNote
    /\ copy = NoNote

\* NoteManager.createNote(actor, noteData) is called
BeginCreateNote(t, noteData, byReference) ==
    /\ Available(t)
    /\ started < MaxCalls
    /\ Len(notes) < MaxNotes
    /\ \E r \in {NoteManager_createNote_begin(notes, noteData, taskNoteRandomID,
                                              byReference)} :
        /\ r.err = "none"
        /\ notes' = r.nts
        /\ tasks' = [u \in TaskIds |->
                       IF u = t THEN [r.task EXCEPT !.refs = BeingCreated]
                       ELSE IF InProgress(u) /\ tasks[u].target = "stored"
                                 /\ r.task.target = "stored"
                            THEN [tasks[u] EXCEPT !.local = r.nts]
                       ELSE tasks[u]]
    /\ started' = started + 1
    /\ UNCHANGED <<categories, items, version, migrated, now, note, page, last,
                   listed, heap, source, copy>>

\* the write of invocation t lands and createNote returns
ResumeCreateNote(t) ==
    /\ InProgress(t)
    /\ tasks[t].op = "NoteManager.createNote"
    /\ \E r \in {NoteManager_createNote_resume(tasks[t], notes)} :
        /\ notes' = r.nts
        /\ tasks' = [u \in TaskIds |->
                       IF u = t THEN r.task
                       ELSE IF InProgress(u) /\ tasks[u].target = "stored"
                                 /\ tasks[t].target = "own"
                            THEN [tasks[u] EXCEPT !.target = "own"]
                       ELSE tasks[u]]
    /\ UNCHANGED <<categories, items, version, migrated, now, note, page, last,
                   listed, started, heap, source, copy>>

NextCreateRace ==
    \/ \E t \in TaskIds, noteData \in NoteDataInputs, byReference \in BOOLEAN :
          BeginCreateNote(t, noteData, byReference)
    \/ \E t \in TaskIds : ResumeCreateNote(t)

SpecCreateRace == InitCreateRace /\ [][NextCreateRace]_vars

----------------------------------------------------------------------------
(* CategoryManager.getAllCategories on the category lists an actor can      *)
(* hold: the lists are drawn at the start, in every insertion order.        *)

\* names of stored categories, in both cases
StoredNameInputs == {NotesName, NotesLower, CombatName, CombatLower}

\* the lists of at most MaxCats stored categories with different names, keys
\* k1, k2, ... in insertion order and either ordering mode
InitStoredCategories ==
    UNION {{[i \in 1..n |-> [key |-> KeyNames[i], name |-> f[i].name,
                             ordering |-> f[i].ordering, collapsed |-> FALSE]] :
               f \in {g \in [1..n -> [name : StoredNameInputs,
                                      ordering : {CATEGORY_ORDERING_ALPHABETICAL,
                                                  CATEGORY_ORDERING_MANUAL}]] :
                        \A i, j \in 1..n : i # j => g[i].name # g[j].name}} :
           n \in 0..MaxCats}

InitGetAll ==
    /\ categories \in InitStoredCategories
    /\ items = [n \in ItemIds |-> Absent]
    /\ notes = << >>
    /\ now = 0
    /\ note = NoNote
    /\ page = NoPage
    /\ version = Undefined
    /\ migrated = FALSE
    /\ last = Called("init", EmptyName, "none", 0)
    /\ listed = NoRet
    /\ tasks = NoTasks
    /\ started = 0
    /\ heap = EmptyHeap
    /\ source = NoNote
    /\ copy = NoNote

\* CategoryManager.getAllCategories(actor): reads the flag, returns the
\* sorted instances, writes nothing
CallGetAllCategories ==
  \E r \in {getAllCategories(categories)} :
    /\ listed' = r.ret
    /\ last' = Called("CategoryManager.getAllCategories", EmptyName, r.err, 0)
    /\ UNCHANGED <<categories, items, notes, version, migrated, now, note, page,
                   tasks, started, heap, source, copy>>

NextGetAll == CallGetAllCategories

SpecGetAll == InitGetAll /\ [][NextGetAll]_vars

----------------------------------------------------------------------------
(* Claims about the note manager on drawn note lists (SpecNoteList).        *)

\* the largest member of a non-empty set of integers
SetMax(S) == CHOOSE x \in S : \A y \in S : y <= x

\* the sort values of the notes of a list
SortsOf(nts) == {nts[i].sort : i \in DOMAIN nts}

\* the step is a successful createNote(noteData)
CreatedWith(noteData) ==
    /\ last'.op = "NoteManager.createNote"
    /\ last'.err = "none"
    /\ ListCreateNote(noteData)

ReorderedWith(noteKeys) ==
    /\ last'.op = "NoteManager.reorderNotes"
    /\ last'.err = "none"
    /\ ListReorderNotes(noteKeys)

\* the keys a list of keys names
Named(noteKeys) == {noteKeys[i] : i \in DOMAIN noteKeys}

\* how many of the first j notes are not named in noteKeys
UnnamedUpTo(nts, noteKeys, j) ==
    Cardinality({m \in 1..j : nts[m].key \notin Named(noteKeys)})

\* the notes not named in noteKeys got the sorts after Len(noteKeys) in their
\* stored order, and nothing but sort changed in any note
RestFollowsAndOnlySortChanged(noteKeys) ==
    /\ Len(notes') = Len(notes)
    /\ \A j \in DOMAIN notes :
          /\ notes'[j] = [notes[j] EXCEPT !.sort = notes'[j].sort]
          /\ notes[j].key \notin Named(noteKeys) =>
                notes'[j].sort = Len(noteKeys) + UnnamedUpTo(notes, noteKeys, j)

\* C15 as stated: reorderNotes with all keys known gives sort i to the note
\* named at position i of the keys, the following sorts to the notes not
\* named, in their stored order, and changes nothing else
C15_SortIsPosition ==
    [][\A noteKeys \in NoteListOrderInputs :
          ReorderedWith(noteKeys) =>
             /\ \A i \in DOMAIN noteKeys :
                   \A j \in DOMAIN notes :
                      notes[j].key = noteKeys[i] => notes'[j].sort = i
             /\ RestFollowsAndOnlySortChanged(noteKeys)]_vars

\* what reorderNotes does with any accepted keys: each named note gets the
\* last position at which the keys name it (its position when the keys are
\* distinct), the notes not named get the following sorts in their stored
\* order, and nothing else changes
C15_SortIsLastPosition ==
    [][\A noteKeys \in NoteListOrderInputs :
          ReorderedWith(noteKeys) =>
             /\ \A i \in DOMAIN noteKeys :
                   (\A k \in (i + 1)..Len(noteKeys) : noteKeys[k] # noteKeys[i]) =>
                      \A j \in DOMAIN notes :
                         notes[j].key = noteKeys[i] => notes'[j].sort = i
             /\ RestFollowsAndOnlySortChanged(noteKeys)]_vars

\* reorderNotes named the last stored note only: it got sort 1 and the
\* notes before it the sorts from 2 on
C15_Witness ==
    /\ last.op = "NoteManager.reorderNotes"
    /\ last.err = "none"
    /\ Len(notes) >= 2
    /\ notes[Len(notes)].sort = 1
    /\ \A j \in 1..(Len(notes) - 1) : notes[j].sort = j + 1

\* the step is a call of validateCategoryReferences
Validated ==
    /\ last'.op = "NoteManager.validateCategoryReferences"
    /\ ListValidateCategoryReferences

\* the keys of the stored categories
CategoryKeys == {categories[i].key : i \in DOMAIN categories}

\* the notes whose category reference is set but names no stored category
DanglingNotes ==
    {i \in DOMAIN notes :
        /\ notes[i].flags[MODULE_ID].category \notin {"null", ""}
        /\ notes[i].flags[MODULE_ID].category \notin CategoryKeys}

\* C16: after validateCategoryReferences every note's category reference is
\* empty or the key of a stored category, the returned count is the number
\* of notes whose reference was dangling before, and no other field of any
\* note changed
C16_ValidateClearsDangling ==
    [][Validated =>
          /\ Len(notes') = Len(notes)
          /\ \A i \in DOMAIN notes' :
                notes'[i].flags[MODULE_ID].category \in {"null", ""} \cup CategoryKeys
          /\ \A i \in DOMAIN notes :
                notes'[i] = IF i \in DanglingNotes
                            THEN [notes[i] EXCEPT !.flags[MODULE_ID].category = "null"]
                            ELSE notes[i]
          /\ NoteManager_validateCategoryReferences(notes, categories).ret
                = Cardinality(DanglingNotes)
          /\ UNCHANGED categories]_vars

\* validateCategoryReferences cleared one reference and kept a valid one
C16_Witness ==
    /\ last.op = "NoteManager.validateCategoryReferences"
    /\ last.writes = 1
    /\ \E i \in DOMAIN notes : notes[i].flags[MODULE_ID].category = "null"
    /\ \E i \in DOMAIN notes : notes[i].flags[MODULE_ID].category \in CategoryKeys

\* C17: validateCategoryReferences writes exactly when it changed a note, and
\* a second call right after it returns 0, writes nothing and changes nothing
C17_ValidateIdempotent ==
    [][Validated =>
          /\ last'.writes = IF notes' # notes THEN 1 ELSE 0
          /\ LET again == NoteManager_validateCategoryReferences(notes', categories')
             IN /\ again.ret = 0
                /\ again.writes = 0
                /\ again.nts = notes']_vars

\* validateCategoryReferences found nothing to clear among notes that hold
\* references, and wrote nothing
C17_Witness ==
    /\ last.op = "NoteManager.validateCategoryReferences"
    /\ last.writes = 0
    /\ \E i \in DOMAIN notes : notes[i].flags[MODULE_ID].category \in CategoryKeys

\* C29: after a successful reorderNotes, whatever keys it was given, the
\* sort values of the N stored notes are pairwise distinct and are exactly
\* the values 1..N
C29_SortsAreOneToN ==
    (last.op = "NoteManager.reorderNotes" /\ last.err = "none") =>
        /\ SortsOf(notes) = 1..Len(notes)
        /\ \A i, j \in DOMAIN notes : i # j => notes[i].sort # notes[j].sort

\* C30: the keys of the persisted categories are pairwise distinct in every
\* reachable state
C30_KeysPairwiseDistinct ==
    \A i, j \in DOMAIN categories : i # j => categories[i].key # categories[j].key

\* C25: in the data of the notes tab every note of the actor is listed under
\* exactly one category, in every reachable state
C25_EveryNoteListedOnce ==
    HasFreshKey =>
       LET tab == getNotesTabData(categories, items, version).categories
       IN \A n \in ItemIds :
             items[n] # Absent =>
                Cardinality({i \in DOMAIN tab : n \in tab[i].notes}) = 1

----------------------------------------------------------------------------
(* Claims about reading the categories (SpecGetAll).                        *)

\* name a does not come after name b in the alphabet, whatever the case of
\* their letters
AlphabeticalOrder(a, b) ==
    LET la == toLowerCase(a)
        lb == toLowerCase(b)
    IN \/ /\ Len(la) <= Len(lb)
          /\ \A k \in 1..Len(la) : la[k] = lb[k]
       \/ \E k \in 1..Len(la) :
             /\ k <= Len(lb)
             /\ la[k] < lb[k]
             /\ \A m \in 1..(k - 1) : la[m] = lb[m]

\* C24: getAllCategories returns every persisted category exactly once, in
\* alphabetical order of the names, for every insertion order and ordering
\* field, and leaves the persisted list as it is
C24_GetAllSortedByName ==
    [][(last'.op = "CategoryManager.getAllCategories" /\ CallGetAllCategories) =>
          /\ last'.err = "none"
          /\ Len(listed') = Len(categories)
          /\ \A i \in DOMAIN categories :
                Cardinality({j \in DOMAIN listed' : toObject(listed'[j]) = categories[i]}) = 1
          /\ \A j \in 1..(Len(listed') - 1) :
                AlphabeticalOrder(listed'[j].name, listed'[j + 1].name)
          /\ categories' = categories]_vars

\* getAllCategories returned the stored categories in another order than
\* they are stored in, one of them with manual ordering
C24_Witness ==
    /\ last.op = "CategoryManager.getAllCategories"
    /\ Len(listed) >= 2
    /\ listed[1].key # categories[1].key
    /\ \E j \in DOMAIN listed : listed[j].ordering = CATEGORY_ORDERING_MANUAL

----------------------------------------------------------------------------
(* Claims about one Note instance and one journal page (SpecNote).          *)

\* C18: Note.update never alters the note's key or its createdTime, whatever
\* the partial carries, and always sets modifiedTime to now and
\* lastModifiedBy to the current user
C18_UpdateKeepsKeyAndCreatedTime ==
    [][(last'.op = "Note.update" /\ \E updates \in NotePartialInputs : UpdateNote(updates)) =>
          /\ note'.key = note.key
          /\ note'._stats.createdTime = note._stats.createdTime
          /\ note'._stats.modifiedTime = now
          /\ note'._stats.lastModifiedBy = CurrentUser]_vars

\* C19: the note made by Note.fromJournalEntryPage refers back, under the
\* module's namespace, to the page it was imported from, whatever flags the
\* page carries
C19_ImportRefersToSource ==
    [][(last'.op = "Note.fromJournalEntryPage" /\ last'.err = "none" /\ ImportPage) =>
          note'.flags[MODULE_ID].sourcePageUuid = page.uuid]_vars

\* C20: a valid note carries markdown only when its text format is MARKDOWN
C20_MarkdownOnlyWithMarkdownFormat ==
    (note # NoNote /\ noteValidate(note) = "none") =>
        ("markdown" \in DOMAIN note.text => note.text.format = FORMAT_MARKDOWN)

----------------------------------------------------------------------------
(* Claims about a Note instance and its clone (SpecClone).                  *)

\* the fields of the source, and of the copy, by value
SourceView == view(heap, source)
CopyView == view(heap, copy)

\* C21: clone returns a copy with another key, stats of a note just created
\* and all other fields equal; the call leaves the source as it is, no
\* update of the copy changes a field of the source, and no update of the
\* source changes a field of the copy
C21_CloneIsIndependent ==
    [][/\ (last'.op = "Note.clone" /\ CloneSource) =>
             /\ CopyView'.key # SourceView.key
             /\ CopyView'._stats = [createdTime |-> now, modifiedTime |-> now,
                                    lastModifiedBy |-> CurrentUser]
             /\ CopyView'.name = SourceView.name
             /\ CopyView'.sort = SourceView.sort
             /\ CopyView'.text = SourceView.text
             /\ CopyView'.flags = SourceView.flags
             /\ SourceView' = SourceView
       /\ (last'.op = "copy.update" /\ \E updates \in ClonePartialInputs : UpdateCopy(updates)) =>
             SourceView' = SourceView
       /\ (last'.op = "source.update" /\ copy # NoNote
             /\ \E updates \in ClonePartialInputs : UpdateSource(updates)) =>
             CopyView' = CopyView]_vars

\* the copy of a source with flags of another module was updated in those
\* flags, and the source still holds the value it was made with
C21_Witness ==
    /\ last.op = "copy.update"
    /\ source # NoNote
    /\ copy # NoNote
    /\ OTHER_MODULE \in DOMAIN SourceView.flags
    /\ SourceView.flags[OTHER_MODULE].x = 1
    /\ CopyView.flags[OTHER_MODULE].x = 2
    /\ CopyView._stats.createdTime > SourceView._stats.createdTime

----------------------------------------------------------------------------
(* Invocations in progress at once (SpecAsync) *)

\* C26: whenever runs of ensureDefault or of the version-1 migration overlap,
\* the persisted list never holds two categories named 'Notes'
C26_OverlapLeavesOneDefault ==
    \A i \in DOMAIN categories, j \in DOMAIN categories :
        (categories[i].name = NotesName /\ categories[j].name = NotesName) => i = j

\* an invocation is about to persist a default category of its own after
\* another one, which loaded the list no later, has persisted its own
C26_Witness ==
    \E t \in TaskIds :
        /\ tasks[t].op \in {"Category.ensureDefault", "runMigrations"}
        /\ tasks[t].pc \in {"write", "v1write"}
        /\ \E i \in DOMAIN categories :
              /\ categories[i].name = NotesName
              /\ categories[i].key # tasks[t].key

\* C22: a delete removes the category record from the persisted list only in
\* a step taken after it has cleared every note that referenced the category
\* when the delete began (ids holds the notes it has not cleared yet)
C22_ClearsBeforeRemoving ==
    [][\A t \in TaskIds :
          (/\ tasks[t].op \in {"CategoryManager.delete", "Category.delete"}
           /\ InProgress(t)
           /\ tasks'[t] # tasks[t]
           /\ tasks[t].key \in StoredKeys
           /\ tasks[t].key \notin {categories'[i].key : i \in DOMAIN categories'})
          => (/\ tasks[t].ids = {}
              /\ tasks[t].pc = "write"
              /\ items' = items)]_vars

\* a delete has cleared the notes that referenced its category and is about to
\* remove the record, which is still in the persisted list
C22_Witness ==
    \E t \in TaskIds :
        /\ tasks[t].op \in {"CategoryManager.delete", "Category.delete"}
        /\ tasks[t].pc = "write"
        /\ tasks[t].refs # {}
        /\ tasks[t].ids = {}
        /\ tasks[t].key \in StoredKeys
        /\ \A n \in tasks[t].refs : items[n] = NoCategory

\* C27: when CategoryManager.delete and a drop of a note were in progress at
\* once and the last of them returns, no note references the key the delete
\* removed
C27_NoReferenceToDeletedKey ==
    [][\A t \in TaskIds :
          (/\ InProgress(t)
           /\ tasks'[t] = Idle
           /\ \A u \in TaskIds : tasks'[u] = Idle)
          => (/\ (tasks[t].op = "CategoryManager.delete"
                    => \A n \in ItemIds :
                          items'[n] = tasks[t].key
                             => tasks[t].key \in
                                  {categories'[i].key : i \in DOMAIN categories'})
              /\ (tasks[t].op = "handleNoteDrop"
                    => items'[tasks[t].n] \in
                          {NoCategory} \cup
                             {categories'[i].key : i \in DOMAIN categories'}))]_vars

\* C28: when a runMigrations that began after an upgrade was interrupted inside
\* migrateToV1 (with 'Notes' persisted and notes left to reassign) stamps the
\* version, none of the notes that were left is still uncategorized
C28_InterruptedUpgradeResumes ==
    [][\A u \in TaskIds :
          (/\ tasks[u].op = "runMigrations"
           /\ tasks[u].pc = "stamp"
           /\ tasks'[u] = Idle
           /\ version' = MIGRATION_VERSION)
          => \A n \in tasks[u].refs : items'[n] # NoCategory]_vars

\* C23: when two createNote invocations, each holding a list of its own, have
\* both returned and one of them loaded the list before the write of the other
\* landed, the persisted list holds the new note of exactly one of them
C23_LastWriterWins ==
    \A t \in TaskIds, u \in TaskIds :
        (/\ t # u
         /\ tasks[t].op = "NoteManager.createNote" /\ tasks[t].pc = "done"
         /\ tasks[u].op = "NoteManager.createNote" /\ tasks[u].pc = "done"
         /\ tasks[t].target = "own" /\ tasks[u].target = "own"
         /\ tasks[t].key \in tasks[u].refs)
        => LET stored == {notes[i].key : i \in DOMAIN notes}
           IN (tasks[u].key \in stored) # (tasks[t].key \in stored)

\* two such invocations have returned
C23_Witness ==
    \E t \in TaskIds, u \in TaskIds :
        /\ t # u
        /\ tasks[t].op = "NoteManager.createNote" /\ tasks[t].pc = "done"
        /\ tasks[u].op = "NoteManager.createNote" /\ tasks[u].pc = "done"
        /\ tasks[t].target = "own" /\ tasks[u].target = "own"
        /\ tasks[t].key \in tasks[u].refs
        /\ tasks[u].key \in {notes[i].key : i \in DOMAIN notes}
        /\ tasks[t].key \notin {notes[i].key : i \in DOMAIN notes}

====
